---- MODULE Spec2Model ----
(***************************************************************************)
(* A state-machine model of the Luckee NFT ledger (CosmWasm contract):     *)
(* the CW721 ownership/approval operations (src/src/cw721.rs), the         *)
(* lifecycle and synthesis operations (src/src/luckee.rs), the             *)
(* administrative operations (src/src/admin.rs) and the index helpers      *)
(* (src/src/helpers.rs).                                                   *)
(*                                                                         *)
(* Every execute handler is one action.  A handler that returns Err makes  *)
(* the host discard all of its writes, so a rejected call is a stuttering  *)
(* step of the ledger; the error kind a call would return in the current   *)
(* state is the value of the handler's *_error operator, which lists the   *)
(* handler's checks in the order of the code.                              *)
(*                                                                         *)
(* Option<T> is a sequence of length 0 (None) or 1 (Some).  Strings that   *)
(* the code inspects character by character (series and group IDs) are     *)
(* sequences of one-character strings.  u64 is modelled with the reduced   *)
(* maximum U64_MAX.                                                        *)
(***************************************************************************)
EXTENDS Integers, Sequences, FiniteSets, TLC

\* ------------------------------------------------------------------ bounds

\* u64::MAX of the reduced word: every stored counter and token ID is in 0..U64_MAX
U64_MAX == 255
\* how many tokens the environment mints into one series before it stops minting
MaxMints == 2
\* the largest token ID the environment names in a mint
MaxMintId == 2
\* the longest input list the environment hands to synthesize
MaxInputs == 2
\* the longest item list the environment hands to batch_mint
MaxBatch == 2

\* ------------------------------------------------------- program constants

MAX_SYNTHESIS_INPUTS == 50
MAX_BATCH_MINT == 100
\* validate_series_id / validate_collection_group_id: the longest accepted ID
MAX_ID_LEN == 100
\* NEXT_TOKEN_ID as instantiate saves it
FIRST_TOKEN_ID == 1

\* ------------------------------------------------------------------- types

None == << >>
Some(x) == <<x>>
IsSome(o) == Len(o) = 1
Unwrap(o) == o[1]

\* NftKind, by declaration order
Clover == 0
Firefly == 1
CrimsonKoi == 2
MagicalLamp == 3
FatesSpindle == 4
Sage == 5
Polaris == 6
WheelOfDestiny == 7
Genesis == 8
NftKind == Clover..Genesis

\* NftKind::to_key: the Debug name of the variant
to_key(kind) ==
    <<"Clover", "Firefly", "CrimsonKoi", "MagicalLamp", "FatesSpindle",
      "Sage", "Polaris", "WheelOfDestiny", "Genesis">>[kind + 1]

\* the addresses of the model: the instantiating owner, the configured
\* minter and two users
Creator == "creator"
Minter == "minter"
User1 == "user1"
User2 == "user2"
Addr == {Creator, Minter, User1, User2}

\* deps.api.addr_validate: the host rejects the empty address
addr_validate(a) == a # ""

\* ---------------------------------------------------------------- strings

\* char::is_alphanumeric, on the ASCII characters
AlphaNumeric ==
    {"a", "b", "c", "d", "e", "f", "g", "h", "i", "j", "k", "l", "m", "n", "o",
     "p", "q", "r", "s", "t", "u", "v", "w", "x", "y", "z",
     "A", "B", "C", "D", "E", "F", "G", "H", "I", "J", "K", "L", "M", "N", "O",
     "P", "Q", "R", "S", "T", "U", "V", "W", "X", "Y", "Z",
     "0", "1", "2", "3", "4", "5", "6", "7", "8", "9"}

\* u64::to_string, as a sequence of characters
RECURSIVE to_string(_)
to_string(n) ==
    LET d == <<"0", "1", "2", "3", "4", "5", "6", "7", "8", "9">>[(n % 10) + 1]
    IN  IF n < 10 THEN <<d>> ELSE to_string(n \div 10) \o <<d>>

\* format!("synthesis_{}", secs)
synthesis_series_id(secs) ==
    <<"s", "y", "n", "t", "h", "e", "s", "i", "s", "_">> \o to_string(secs)

\* helpers.rs validate_series_id: TRUE when the ID is accepted
validate_series_id(series_id) ==
    /\ Len(series_id) # 0
    /\ Len(series_id) <= MAX_ID_LEN
    /\ \A i \in 1..Len(series_id) :
          series_id[i] \in AlphaNumeric \/ series_id[i] = "_" \/ series_id[i] = "-"

\* helpers.rs validate_collection_group_id: TRUE when the ID is accepted
validate_collection_group_id(group_id) ==
    /\ Len(group_id) # 0
    /\ Len(group_id) <= MAX_ID_LEN
    /\ \A i \in 1..Len(group_id) :
          group_id[i] \in AlphaNumeric \/ group_id[i] = "_" \/ group_id[i] = "-"

\* ------------------------------------------------------------- arithmetic

\* u64::checked_add / checked_sub: None on leaving 0..U64_MAX
checked_add(a, b) == IF a + b > U64_MAX THEN None ELSE Some(a + b)
checked_sub(a, b) == IF a - b < 0 THEN None ELSE Some(a - b)

\* ------------------------------------------------------------------- maps

\* cw_storage_plus::Map as a function whose domain is the set of stored keys
Has(m, k) == k \in DOMAIN m
Save(m, k, v) == (k :> v) @@ m
Remove(m, k) == [x \in (DOMAIN m) \ {k} |-> m[x]]
EmptyMap == << >>

\* the IDs a list names
Range(ids) == {ids[i] : i \in 1..Len(ids)}

\* a faulty retain that drops nothing
retain_every_id(tokens, token_id) == tokens

\* Vec::retain(|&id| id != token_id)
retain_ne(tokens, token_id) == SelectSeq(tokens, LAMBDA id : id # token_id)

\* Vec::sort
sort(tokens) == SortSeq(tokens, LAMBDA a, b : a < b)

\* ------------------------------------------------------------------- state

VARIABLES
    CONFIG,              \* Item<Config>: [owner, minter, base_uri]
    CONTRACT_PAUSED,     \* Item<bool>
    ALLOWED_MINTERS,     \* Map<Addr, bool>
    TOKEN_META,          \* Map<u64, NftMeta>
    TOKEN_OWNERSHIP,     \* Map<u64, Addr>
    TOKEN_APPROVALS,     \* Map<u64, Vec<Approval>>
    OPERATOR_APPROVALS,  \* Map<(Addr, Addr), Expiration>
    TOKENS_BY_OWNER,     \* Map<Addr, Vec<u64>>
    ALL_TOKENS,          \* Map<u64, ()>: the set of its keys
    SERIES_NEXT_SERIAL,  \* Map<String, u64>
    TOTAL_SUPPLY,        \* Item<u64>
    NEXT_TOKEN_ID,       \* Item<u64>
    RECIPES,             \* Map<String, Recipe>, keyed by NftKind::to_key
    SYNTHESIS_HISTORY,   \* Map<(Addr, u64), SynthesisRecord>
    block_time,          \* env.block.time.seconds()
    block_height,        \* env.block.height
    last,                \* the last successful call: [op, sender, ids, purged, msgs]
    assigned             \* every token ID a mint, batch_mint or synthesis has assigned

ledger ==
    <<CONFIG, CONTRACT_PAUSED, ALLOWED_MINTERS, TOKEN_META, TOKEN_OWNERSHIP,
      TOKEN_APPROVALS, OPERATOR_APPROVALS, TOKENS_BY_OWNER, ALL_TOKENS,
      SERIES_NEXT_SERIAL, TOTAL_SUPPLY, NEXT_TOKEN_ID, RECIPES, SYNTHESIS_HISTORY>>

tokens ==
    <<TOKEN_META, TOKEN_OWNERSHIP, TOKEN_APPROVALS, TOKENS_BY_OWNER, ALL_TOKENS,
      SERIES_NEXT_SERIAL, TOTAL_SUPPLY, NEXT_TOKEN_ID, SYNTHESIS_HISTORY>>

env == <<block_time, block_height>>

vars == <<ledger, env, last, assigned>>

\* ------------------------------------------------------- recipes.rs seed

RecipeInput(kind, n) == [nft_kind |-> kind, count |-> n]
MkRecipe(ins, out) == [inputs |-> ins, output |-> out, cost |-> None]

\* recipes.rs initialize_default_recipes: the eight recipes of the upgrade chain
initialize_default_recipes ==
    LET need == <<2, 2, 5, 10, 10, 10, 10, 10>>
    IN  [key \in {to_key(k) : k \in Firefly..Genesis} |->
            LET k == CHOOSE t \in Firefly..Genesis : to_key(t) = key
            IN  MkRecipe(<<RecipeInput(k - 1, need[k])>>, k)]

\* ------------------------------------------------------------ helpers.rs

\* helpers.rs check_contract_paused: TRUE when the call is let through
check_contract_paused == ~CONTRACT_PAUSED

\* a faulty is_authorized_minter that takes any stored allowance for a grant
is_authorized_minter_listed(sender) ==
    sender = CONFIG.minter \/ Has(ALLOWED_MINTERS, sender)

\* helpers.rs is_authorized_minter
is_authorized_minter(sender) ==
    \/ sender = CONFIG.minter
    \/ (Has(ALLOWED_MINTERS, sender) /\ ALLOWED_MINTERS[sender])

\* the owner check of the administrative handlers
is_owner(sender) == CONFIG.owner = sender

\* a faulty clear_token_approvals that deletes nothing
clear_token_approvals_none(approvals, token_id) == approvals

\* helpers.rs clear_token_approvals
clear_token_approvals(approvals, token_id) == Remove(approvals, token_id)

\* a faulty add_token_to_owner that pushes the ID and does not sort
add_token_to_owner_unsorted(by_owner, owner, token_id) ==
    LET held == IF Has(by_owner, owner) THEN by_owner[owner] ELSE << >>
    IN  Save(by_owner, owner, Append(held, token_id))

\* helpers.rs add_token_to_owner
add_token_to_owner(by_owner, owner, token_id) ==
    LET held == IF Has(by_owner, owner) THEN by_owner[owner] ELSE << >>
    IN  Save(by_owner, owner, sort(Append(held, token_id)))

\* helpers.rs remove_token_from_owner
remove_token_from_owner(by_owner, owner, token_id) ==
    IF Has(by_owner, owner)
    THEN LET held == retain_ne(by_owner[owner], token_id)
         IN  IF held = << >> THEN Remove(by_owner, owner)
                             ELSE Save(by_owner, owner, held)
    ELSE by_owner

\* a faulty update_owner_tokens that leaves the token in the former owner's list
update_owner_tokens_add_only(by_owner, from, to, token_id) ==
    LET held_to == IF Has(by_owner, to) THEN by_owner[to] ELSE << >>
    IN  Save(by_owner, to, sort(Append(held_to, token_id)))

\* helpers.rs update_owner_tokens
update_owner_tokens(by_owner, from, to, token_id) ==
    LET removed ==
            IF Has(by_owner, from)
            THEN LET held == retain_ne(by_owner[from], token_id)
                 IN  IF held = << >> THEN Remove(by_owner, from)
                                     ELSE Save(by_owner, from, held)
            ELSE by_owner
        held_to == IF Has(removed, to) THEN removed[to] ELSE << >>
    IN  Save(removed, to, sort(Append(held_to, token_id)))

\* Variant of next_serial that forgets the stored counter: every series starts
\* again from zero.
next_serial_restarting(serials, series_id) == 0

\* SERIES_NEXT_SERIAL.may_load(series_id).unwrap_or(0)
next_serial(serials, series_id) ==
    IF Has(serials, series_id) THEN serials[series_id] ELSE 0

\* the IDs whose stored approval list a call deletes
Purged(ids) == {id \in ids : Has(TOKEN_APPROVALS, id)}

\* the record of a successful call: the handler, the sender, the token IDs the call
\* names and the IDs whose stored approvals it deleted
Call(op, sender, ids, purged) ==
    [op |-> op, sender |-> sender, ids |-> ids, purged |-> purged]

\* ------------------------------------------------------------- instantiate

\* contract.rs instantiate, sent by Creator with msg.minter = Minter
Init ==
    /\ CONFIG = [name |-> "Luckee NFT", symbol |-> "LUCKEE", minter |-> Minter,
                 base_uri |-> None, owner |-> Creator]
    /\ TOTAL_SUPPLY = 0
    /\ NEXT_TOKEN_ID = FIRST_TOKEN_ID
    /\ CONTRACT_PAUSED = FALSE
    /\ RECIPES = initialize_default_recipes
    /\ ALLOWED_MINTERS = EmptyMap
    /\ TOKEN_META = EmptyMap
    /\ TOKEN_OWNERSHIP = EmptyMap
    /\ TOKEN_APPROVALS = EmptyMap
    /\ OPERATOR_APPROVALS = EmptyMap
    /\ TOKENS_BY_OWNER = EmptyMap
    /\ ALL_TOKENS = {}
    /\ SERIES_NEXT_SERIAL = EmptyMap
    /\ SYNTHESIS_HISTORY = EmptyMap
    /\ block_time = 0
    /\ block_height = 0
    /\ last = Call("instantiate", Creator, << >>, {})
    /\ assigned = {}

\* ------------------------------------------------------- luckee.rs: mint

\* a faulty update that leaves the counter alone when the ID equals it
advance_next_id_above(next_id, token_id) ==
    IF token_id > next_id THEN checked_add(token_id, 1) ELSE Some(next_id)

\* NEXT_TOKEN_ID after a mint of token_id: advanced past an ID at or above it
advance_next_id(next_id, token_id) ==
    IF token_id >= next_id THEN checked_add(token_id, 1) ELSE Some(next_id)

\* a faulty mint that does not look for stored metadata under the token ID
mint_error_overwriting(sender, token_id, owner, extension) ==
    IF ~check_contract_paused THEN "ContractPaused"
    ELSE IF ~is_authorized_minter(sender) THEN "MinterNotAuthorized"
    ELSE IF ~addr_validate(owner) THEN "Std"
    ELSE IF ~validate_series_id(extension.series_id) THEN "Std"
    ELSE IF /\ IsSome(extension.collection_group_id)
            /\ ~validate_collection_group_id(Unwrap(extension.collection_group_id))
         THEN "Std"
    ELSE IF advance_next_id(NEXT_TOKEN_ID, token_id) = None THEN "Overflow"
    ELSE IF checked_add(next_serial(SERIES_NEXT_SERIAL, extension.series_id), 1) = None
         THEN "Overflow"
    ELSE IF checked_add(TOTAL_SUPPLY, 1) = None THEN "Overflow"
    ELSE "Ok"

\* luckee.rs execute_mint: the error the call returns, "Ok" when it succeeds
mint_error(sender, token_id, owner, extension) ==
    IF ~check_contract_paused THEN "ContractPaused"
    ELSE IF ~is_authorized_minter(sender) THEN "MinterNotAuthorized"
    ELSE IF ~addr_validate(owner) THEN "Std"
    ELSE IF ~validate_series_id(extension.series_id) THEN "Std"
    ELSE IF /\ IsSome(extension.collection_group_id)
            /\ ~validate_collection_group_id(Unwrap(extension.collection_group_id))
         THEN "Std"
    ELSE IF Has(TOKEN_META, token_id) THEN "TokenAlreadyExists"
    ELSE IF advance_next_id(NEXT_TOKEN_ID, token_id) = None THEN "Overflow"
    ELSE IF checked_add(next_serial(SERIES_NEXT_SERIAL, extension.series_id), 1) = None
         THEN "Overflow"
    ELSE IF checked_add(TOTAL_SUPPLY, 1) = None THEN "Overflow"
    ELSE "Ok"

\* luckee.rs execute_mint
execute_mint(sender, token_id, owner, extension) ==
    /\ mint_error(sender, token_id, owner, extension) = "Ok"
    /\ NEXT_TOKEN_ID' = Unwrap(advance_next_id(NEXT_TOKEN_ID, token_id))
    /\ TOKEN_META' = Save(TOKEN_META, token_id, extension)
    /\ TOKEN_OWNERSHIP' = Save(TOKEN_OWNERSHIP, token_id, owner)
    /\ TOKENS_BY_OWNER' = add_token_to_owner(TOKENS_BY_OWNER, owner, token_id)
    /\ ALL_TOKENS' = ALL_TOKENS \cup {token_id}
    /\ SERIES_NEXT_SERIAL' =
          Save(SERIES_NEXT_SERIAL, extension.series_id,
               Unwrap(checked_add(next_serial(SERIES_NEXT_SERIAL, extension.series_id), 1)))
    /\ TOTAL_SUPPLY' = Unwrap(checked_add(TOTAL_SUPPLY, 1))
    /\ UNCHANGED <<CONFIG, CONTRACT_PAUSED, ALLOWED_MINTERS, TOKEN_APPROVALS,
                   OPERATOR_APPROVALS, RECIPES, SYNTHESIS_HISTORY, env>>

\* ------------------------------------------------------- luckee.rs: burn

\* a faulty burn that does not compare the owner with the caller
burn_error_any_caller(sender, token_id) ==
    IF ~check_contract_paused THEN "ContractPaused"
    ELSE IF ~Has(TOKEN_META, token_id) THEN "TokenNotFound"
    ELSE IF ~Has(TOKEN_OWNERSHIP, token_id) THEN "Std"
    ELSE IF checked_sub(TOTAL_SUPPLY, 1) = None THEN "Overflow"
    ELSE "Ok"

\* luckee.rs execute_burn: the error the call returns, "Ok" when it succeeds
burn_error(sender, token_id) ==
    IF ~check_contract_paused THEN "ContractPaused"
    ELSE IF ~Has(TOKEN_META, token_id) THEN "TokenNotFound"
    ELSE IF ~Has(TOKEN_OWNERSHIP, token_id) THEN "Std"
    ELSE IF TOKEN_OWNERSHIP[token_id] # sender THEN "NotOwned"
    ELSE IF checked_sub(TOTAL_SUPPLY, 1) = None THEN "Overflow"
    ELSE "Ok"

\* luckee.rs execute_burn
execute_burn(sender, token_id) ==
    /\ burn_error(sender, token_id) = "Ok"
    /\ TOKEN_META' = Remove(TOKEN_META, token_id)
    /\ TOKEN_OWNERSHIP' = Remove(TOKEN_OWNERSHIP, token_id)
    /\ TOKEN_APPROVALS' = clear_token_approvals(TOKEN_APPROVALS, token_id)
    /\ TOKENS_BY_OWNER' =
          remove_token_from_owner(TOKENS_BY_OWNER, TOKEN_OWNERSHIP[token_id], token_id)
    /\ ALL_TOKENS' = ALL_TOKENS \ {token_id}
    /\ TOTAL_SUPPLY' = Unwrap(checked_sub(TOTAL_SUPPLY, 1))
    /\ UNCHANGED <<CONFIG, CONTRACT_PAUSED, ALLOWED_MINTERS, OPERATOR_APPROVALS,
                   SERIES_NEXT_SERIAL, NEXT_TOKEN_ID, RECIPES, SYNTHESIS_HISTORY,
                   env>>

\* ------------------------------------------------- luckee.rs: synthesize

\* a faulty input check that does not compare the owner with the caller
input_error_any_owner(sender, token_id) ==
    IF ~Has(TOKEN_META, token_id) THEN "TokenNotFound"
    ELSE IF ~Has(TOKEN_OWNERSHIP, token_id) THEN "Std"
    ELSE "Ok"

\* helpers.rs verify_nft_ownership, after the metadata check of the caller's loop:
\* the error the input at position i raises, "Ok" when it passes
input_error(sender, token_id) ==
    IF ~Has(TOKEN_META, token_id) THEN "TokenNotFound"
    ELSE IF ~Has(TOKEN_OWNERSHIP, token_id) THEN "Std"
    ELSE IF TOKEN_OWNERSHIP[token_id] # sender THEN "NotOwned"
    ELSE "Ok"

\* the error of the first input, in list order, that does not pass
RECURSIVE first_input_error(_, _, _)
first_input_error(sender, inputs, i) ==
    IF i > Len(inputs) THEN "Ok"
    ELSE IF input_error(sender, inputs[i]) # "Ok" THEN input_error(sender, inputs[i])
    ELSE first_input_error(sender, inputs, i + 1)

\* inputs.iter().filter(|id| input_metas[id].kind == kind).count()
count_of_kind(inputs, kind) ==
    Cardinality({i \in 1..Len(inputs) :
        Has(TOKEN_META, inputs[i]) /\ TOKEN_META[inputs[i]].kind = kind})

\* a faulty validation that never compares the inputs with the recipe lines
validate_synthesis_inputs_lines_unchecked(sender, inputs, recipe) ==
    IF inputs = << >> THEN "InsufficientInputTokens"
    ELSE first_input_error(sender, inputs, 1)

\* helpers.rs validate_synthesis_inputs: the error it returns, "Ok" when it passes
validate_synthesis_inputs(sender, inputs, recipe) ==
    IF inputs = << >> THEN "InsufficientInputTokens"
    ELSE IF first_input_error(sender, inputs, 1) # "Ok"
         THEN first_input_error(sender, inputs, 1)
    ELSE IF \E j \in 1..Len(recipe.inputs) :
                count_of_kind(inputs, recipe.inputs[j].nft_kind) < recipe.inputs[j].count
         THEN "InsufficientInputTokens"
    ELSE "Ok"

\* a faulty supply update that counts the output and not the consumed inputs
synthesize_supply_output_only(supply, inputs) == checked_add(supply, 1)

\* luckee.rs execute_synthesize, lines 276-281: supply + 1 - inputs.len(), checked.
\* The handler names a total_supply it never binds; it is read here as the stored
\* TOTAL_SUPPLY, the only supply value the handler can load.
synthesize_supply(supply, inputs) ==
    IF checked_add(supply, 1) = None THEN None
    ELSE checked_sub(Unwrap(checked_add(supply, 1)), Len(inputs))

\* a faulty synthesize whose size check rejects MAX_SYNTHESIS_INPUTS inputs
synthesize_error_at_limit(sender, inputs, target) ==
    IF ~check_contract_paused THEN "ContractPaused"
    ELSE IF Len(inputs) >= MAX_SYNTHESIS_INPUTS THEN "TooManyInputs"
    ELSE IF ~Has(RECIPES, to_key(target)) THEN "RecipeNotFound"
    ELSE IF validate_synthesis_inputs(sender, inputs, RECIPES[to_key(target)]) # "Ok"
         THEN validate_synthesis_inputs(sender, inputs, RECIPES[to_key(target)])
    ELSE IF checked_add(NEXT_TOKEN_ID, 1) = None THEN "Overflow"
    ELSE IF checked_add(next_serial(SERIES_NEXT_SERIAL, synthesis_series_id(block_time)), 1)
            = None
         THEN "Overflow"
    ELSE IF synthesize_supply(TOTAL_SUPPLY, inputs) = None THEN "Overflow"
    ELSE "Ok"

\* luckee.rs execute_synthesize: the error the call returns, "Ok" when it succeeds
synthesize_error(sender, inputs, target) ==
    IF ~check_contract_paused THEN "ContractPaused"
    ELSE IF Len(inputs) > MAX_SYNTHESIS_INPUTS THEN "TooManyInputs"
    ELSE IF ~Has(RECIPES, to_key(target)) THEN "RecipeNotFound"
    ELSE IF validate_synthesis_inputs(sender, inputs, RECIPES[to_key(target)]) # "Ok"
         THEN validate_synthesis_inputs(sender, inputs, RECIPES[to_key(target)])
    ELSE IF checked_add(NEXT_TOKEN_ID, 1) = None THEN "Overflow"
    ELSE IF checked_add(next_serial(SERIES_NEXT_SERIAL, synthesis_series_id(block_time)), 1)
            = None
         THEN "Overflow"
    ELSE IF synthesize_supply(TOTAL_SUPPLY, inputs) = None THEN "Overflow"
    ELSE "Ok"

\* the metadata of the output token
output_meta(inputs, target) ==
    [kind |-> target, scale_origin |-> "Tiny", physical_sku |-> None,
     crafted_from |-> Some(inputs), series_id |-> synthesis_series_id(block_time),
     collection_group_id |-> None, serial_in_series |-> 1]

\* a faulty loop that removes the entry of the first input only
remove_inputs_first_only(m, inputs) ==
    [x \in (DOMAIN m) \ {inputs[i] : i \in 1..Len(inputs) \cap {1}} |-> m[x]]

\* the loop over the inputs, on a map keyed by token ID: every input's entry removed
remove_inputs(m, inputs) ==
    [x \in (DOMAIN m) \ {inputs[i] : i \in 1..Len(inputs)} |-> m[x]]

\* the loop over the inputs, on the approvals: clear_token_approvals for each
\* the inputs lo..hi in their order, the range split in halves; once no approval
\* is stored the later passes have nothing to remove
RECURSIVE approval_removals(_, _, _, _)
approval_removals(approvals, inputs, lo, hi) ==
    IF lo > hi THEN approvals
    ELSE IF lo = hi THEN clear_token_approvals(approvals, inputs[lo])
    ELSE LET mid == (lo + hi) \div 2
             left == approval_removals(approvals, inputs, lo, mid)
         IN  IF DOMAIN left = {} THEN left
             ELSE approval_removals(left, inputs, mid + 1, hi)

clear_inputs_approvals(approvals, inputs, i) ==
    approval_removals(approvals, inputs, i, Len(inputs))

\* the loop over the inputs, on the owner index: remove_token_from_owner for each
\* the inputs lo..hi in their order, the range split in halves; once the owner's
\* entry is gone the later passes find nothing to load and write nothing
RECURSIVE owner_removals(_, _, _, _, _)
owner_removals(by_owner, owner, inputs, lo, hi) ==
    IF lo > hi THEN by_owner
    ELSE IF lo = hi THEN remove_token_from_owner(by_owner, owner, inputs[lo])
    ELSE LET mid == (lo + hi) \div 2
             left == owner_removals(by_owner, owner, inputs, lo, mid)
         IN  IF ~Has(left, owner) THEN left
             ELSE owner_removals(left, owner, inputs, mid + 1, hi)

\* a faulty loop that takes only the first input out of the owner index
remove_inputs_from_owner_first_only(by_owner, owner, inputs, i) ==
    owner_removals(by_owner, owner, inputs, i, i)

\* the whole loop on the owner index, from input i to the last one
remove_inputs_from_owner(by_owner, owner, inputs, i) ==
    owner_removals(by_owner, owner, inputs, i, Len(inputs))

\* luckee.rs execute_synthesize
execute_synthesize(sender, inputs, target) ==
    /\ synthesize_error(sender, inputs, target) = "Ok"
    /\ NEXT_TOKEN_ID' = Unwrap(checked_add(NEXT_TOKEN_ID, 1))
    /\ TOKEN_META' =
          Save(remove_inputs(TOKEN_META, inputs), NEXT_TOKEN_ID, output_meta(inputs, target))
    /\ TOKEN_OWNERSHIP' = Save(remove_inputs(TOKEN_OWNERSHIP, inputs), NEXT_TOKEN_ID, sender)
    /\ TOKEN_APPROVALS' = clear_inputs_approvals(TOKEN_APPROVALS, inputs, 1)
    /\ TOKENS_BY_OWNER' =
          add_token_to_owner(remove_inputs_from_owner(TOKENS_BY_OWNER, sender, inputs, 1),
                             sender, NEXT_TOKEN_ID)
    /\ ALL_TOKENS' =
          (ALL_TOKENS \ {inputs[i] : i \in 1..Len(inputs)}) \cup {NEXT_TOKEN_ID}
    /\ SERIES_NEXT_SERIAL' =
          Save(SERIES_NEXT_SERIAL, synthesis_series_id(block_time),
               Unwrap(checked_add(
                   next_serial(SERIES_NEXT_SERIAL, synthesis_series_id(block_time)), 1)))
    /\ TOTAL_SUPPLY' = Unwrap(synthesize_supply(TOTAL_SUPPLY, inputs))
    /\ SYNTHESIS_HISTORY' =
          Save(SYNTHESIS_HISTORY, <<sender, block_time>>,
               [user |-> sender, inputs |-> inputs, output |-> NEXT_TOKEN_ID,
                timestamp |-> block_time])
    /\ UNCHANGED <<CONFIG, CONTRACT_PAUSED, ALLOWED_MINTERS, OPERATOR_APPROVALS,
                   RECIPES, env>>

\* ------------------------------------------------- luckee.rs: batch_mint

\* luckee.rs execute_batch_mint, lines 397-406: the pre-scan for a token ID that
\* repeats in the batch or is already stored; TRUE when the batch passes
\* a faulty pre-scan that looks only at the stored tokens
batch_prescan_stored_only(mints, i, seen) ==
    \A k \in i..Len(mints) : ~Has(TOKEN_META, mints[k].token_id)

\* from item i on, with the IDs in seen inserted before: no item's ID is among
\* the IDs inserted before it, and none is stored
batch_prescan(mints, i, seen) ==
    \A k \in i..Len(mints) :
        /\ mints[k].token_id \notin seen \cup {mints[j].token_id : j \in i..(k - 1)}
        /\ ~Has(TOKEN_META, mints[k].token_id)

\* luckee.rs execute_batch_mint, line 451: total_supply += 1, an unchecked u64
\* addition.  Past u64::MAX a build with overflow checks panics and a build
\* without them wraps: wrapping says which build runs.
batch_count_item(supply, wrapping) ==
    IF supply + 1 <= U64_MAX THEN Some(supply + 1)
    ELSE IF wrapping THEN Some((supply + 1) % (U64_MAX + 1))
    ELSE None

\* luckee.rs execute_batch_mint, lines 408-452: one pass of the loop over the
\* items, on the writes staged so far
batch_item(acc, item, wrapping) ==
    LET serial == checked_add(next_serial(acc.serials, item.extension.series_id), 1)
    IN
    IF acc.err # "Ok" THEN acc
    ELSE IF ~addr_validate(item.owner) THEN [acc EXCEPT !.err = "Std"]
    ELSE IF ~validate_series_id(item.extension.series_id) THEN [acc EXCEPT !.err = "Std"]
    ELSE IF /\ IsSome(item.extension.collection_group_id)
            /\ ~validate_collection_group_id(Unwrap(item.extension.collection_group_id))
         THEN [acc EXCEPT !.err = "Std"]
    ELSE IF advance_next_id(acc.next_id, item.token_id) = None
         THEN [acc EXCEPT !.err = "Overflow"]
    ELSE IF serial = None THEN [acc EXCEPT !.err = "Overflow"]
    ELSE IF batch_count_item(acc.supply, wrapping) = None
         THEN [acc EXCEPT !.err = "Panic"]
    ELSE [err |-> "Ok",
          next_id |-> Unwrap(advance_next_id(acc.next_id, item.token_id)),
          meta |-> Save(acc.meta, item.token_id, item.extension),
          owners |-> Save(acc.owners, item.token_id, item.owner),
          by_owner |-> add_token_to_owner(acc.by_owner, item.owner, item.token_id),
          all |-> acc.all \cup {item.token_id},
          serials |-> Save(acc.serials, item.extension.series_id, Unwrap(serial)),
          supply |-> Unwrap(batch_count_item(acc.supply, wrapping))]

\* the passes over the items lo..hi in their order, the range split in halves;
\* once a pass has failed the later ones leave the staged writes as they are
RECURSIVE batch_passes(_, _, _, _, _)
batch_passes(acc, mints, lo, hi, wrapping) ==
    IF lo > hi THEN acc
    ELSE IF lo = hi THEN batch_item(acc, mints[lo], wrapping)
    ELSE LET mid == (lo + hi) \div 2
             left == batch_passes(acc, mints, lo, mid, wrapping)
         IN  IF left.err # "Ok" THEN left
             ELSE batch_passes(left, mints, mid + 1, hi, wrapping)

\* the loop from item i to the last item
batch_loop(acc, mints, i, wrapping) == batch_passes(acc, mints, i, Len(mints), wrapping)

\* the writes the loop has staged when it ends
batch_staged(mints, wrapping) ==
    batch_loop([err |-> "Ok", next_id |-> NEXT_TOKEN_ID, meta |-> TOKEN_META,
                owners |-> TOKEN_OWNERSHIP, by_owner |-> TOKENS_BY_OWNER,
                all |-> ALL_TOKENS, serials |-> SERIES_NEXT_SERIAL,
                supply |-> TOTAL_SUPPLY],
               mints, 1, wrapping)

\* luckee.rs execute_batch_mint, lines 454-457: the supply that is saved, from the
\* supply the loop has counted up and the number of items
batch_supply(counted, mint_count) == checked_add(counted, mint_count)

\* a faulty batch_mint whose size check rejects a batch of MAX_BATCH_MINT items
batch_mint_error_at_limit(sender, mints, wrapping) ==
    IF ~check_contract_paused THEN "ContractPaused"
    ELSE IF ~is_authorized_minter(sender) THEN "MinterNotAuthorized"
    ELSE IF Len(mints) >= MAX_BATCH_MINT THEN "TooManyTokens"
    ELSE IF ~batch_prescan(mints, 1, {}) THEN "TokenAlreadyExists"
    ELSE IF batch_staged(mints, wrapping).err # "Ok" THEN batch_staged(mints, wrapping).err
    ELSE IF batch_supply(batch_staged(mints, wrapping).supply, Len(mints)) = None
         THEN "Overflow"
    ELSE "Ok"

\* luckee.rs execute_batch_mint: the error the call returns, "Ok" when it succeeds
batch_mint_error(sender, mints, wrapping) ==
    IF ~check_contract_paused THEN "ContractPaused"
    ELSE IF ~is_authorized_minter(sender) THEN "MinterNotAuthorized"
    ELSE IF Len(mints) > MAX_BATCH_MINT THEN "TooManyTokens"
    ELSE IF ~batch_prescan(mints, 1, {}) THEN "TokenAlreadyExists"
    ELSE IF batch_staged(mints, wrapping).err # "Ok" THEN batch_staged(mints, wrapping).err
    ELSE IF batch_supply(batch_staged(mints, wrapping).supply, Len(mints)) = None
         THEN "Overflow"
    ELSE "Ok"

\* luckee.rs execute_batch_mint
execute_batch_mint(sender, mints, wrapping) ==
    /\ batch_mint_error(sender, mints, wrapping) = "Ok"
    /\ LET staged == batch_staged(mints, wrapping)
       IN  /\ NEXT_TOKEN_ID' = staged.next_id
           /\ TOKEN_META' = staged.meta
           /\ TOKEN_OWNERSHIP' = staged.owners
           /\ TOKENS_BY_OWNER' = staged.by_owner
           /\ ALL_TOKENS' = staged.all
           /\ SERIES_NEXT_SERIAL' = staged.serials
           /\ TOTAL_SUPPLY' = Unwrap(batch_supply(staged.supply, Len(mints)))
    /\ UNCHANGED <<CONFIG, CONTRACT_PAUSED, ALLOWED_MINTERS, TOKEN_APPROVALS,
                   OPERATOR_APPROVALS, RECIPES, SYNTHESIS_HISTORY, env>>

\* ------------------------------------------------------- cw721.rs: execute

\* a faulty transfer that also accepts a spender approved for the token and an
\* operator of its owner
transfer_nft_error_approved(sender, recipient, token_id) ==
    IF ~check_contract_paused THEN "ContractPaused"
    ELSE IF ~Has(TOKEN_OWNERSHIP, token_id) THEN "Std"
    ELSE IF /\ TOKEN_OWNERSHIP[token_id] # sender
            /\ ~Has(OPERATOR_APPROVALS, <<TOKEN_OWNERSHIP[token_id], sender>>)
            /\ ~(Has(TOKEN_APPROVALS, token_id)
                 /\ \E i \in 1..Len(TOKEN_APPROVALS[token_id]) :
                        TOKEN_APPROVALS[token_id][i].spender = sender)
         THEN "NotOwned"
    ELSE IF ~addr_validate(recipient) THEN "Std"
    ELSE "Ok"

\* cw721.rs execute_transfer_nft: the error the call returns, "Ok" when it succeeds
transfer_nft_error(sender, recipient, token_id) ==
    IF ~check_contract_paused THEN "ContractPaused"
    ELSE IF ~Has(TOKEN_OWNERSHIP, token_id) THEN "Std"
    ELSE IF TOKEN_OWNERSHIP[token_id] # sender THEN "NotOwned"
    ELSE IF ~addr_validate(recipient) THEN "Std"
    ELSE "Ok"

\* cw721.rs execute_transfer_nft
execute_transfer_nft(sender, recipient, token_id) ==
    /\ transfer_nft_error(sender, recipient, token_id) = "Ok"
    /\ TOKEN_OWNERSHIP' = Save(TOKEN_OWNERSHIP, token_id, recipient)
    /\ TOKEN_APPROVALS' = clear_token_approvals(TOKEN_APPROVALS, token_id)
    /\ TOKENS_BY_OWNER' =
          update_owner_tokens(TOKENS_BY_OWNER, TOKEN_OWNERSHIP[token_id], recipient, token_id)
    /\ UNCHANGED <<CONFIG, CONTRACT_PAUSED, ALLOWED_MINTERS, TOKEN_META,
                   OPERATOR_APPROVALS, ALL_TOKENS, SERIES_NEXT_SERIAL, TOTAL_SUPPLY,
                   NEXT_TOKEN_ID, RECIPES, SYNTHESIS_HISTORY, env>>

\* a faulty retain that keeps the entries of every spender
retain_every_spender(approvals, spender) == approvals

\* approvals.retain(|approval| approval.spender != spender_addr)
retain_other_spenders(approvals, spender) ==
    SelectSeq(approvals, LAMBDA approval : approval.spender # spender)

\* TOKEN_APPROVALS.may_load(token_id).unwrap_or_default()
approvals_of(token_id) ==
    IF Has(TOKEN_APPROVALS, token_id) THEN TOKEN_APPROVALS[token_id] ELSE << >>

\* cw721.rs execute_approve: the error the call returns
approve_error(sender, spender, token_id) ==
    IF ~check_contract_paused THEN "ContractPaused"
    ELSE IF ~Has(TOKEN_OWNERSHIP, token_id) THEN "Std"
    ELSE IF TOKEN_OWNERSHIP[token_id] # sender THEN "NotOwned"
    ELSE IF ~addr_validate(spender) THEN "Std"
    ELSE "Ok"

\* cw721.rs execute_approve
execute_approve(sender, spender, token_id, expires) ==
    /\ approve_error(sender, spender, token_id) = "Ok"
    /\ TOKEN_APPROVALS' =
          Save(TOKEN_APPROVALS, token_id,
               Append(retain_other_spenders(approvals_of(token_id), spender),
                      [spender |-> spender, expires |-> expires]))
    /\ UNCHANGED <<CONFIG, CONTRACT_PAUSED, ALLOWED_MINTERS, TOKEN_META, TOKEN_OWNERSHIP,
                   OPERATOR_APPROVALS, TOKENS_BY_OWNER, ALL_TOKENS, SERIES_NEXT_SERIAL,
                   TOTAL_SUPPLY, NEXT_TOKEN_ID, RECIPES, SYNTHESIS_HISTORY, env>>

\* cw721.rs execute_revoke: the error the call returns
revoke_error(sender, spender, token_id) ==
    IF ~check_contract_paused THEN "ContractPaused"
    ELSE IF ~Has(TOKEN_OWNERSHIP, token_id) THEN "Std"
    ELSE IF TOKEN_OWNERSHIP[token_id] # sender THEN "NotOwned"
    ELSE IF ~addr_validate(spender) THEN "Std"
    ELSE "Ok"

\* a faulty revoke that saves the list also when it has become empty
execute_revoke_keeping_record(sender, spender, token_id) ==
    /\ revoke_error(sender, spender, token_id) = "Ok"
    /\ TOKEN_APPROVALS' =
          Save(TOKEN_APPROVALS, token_id,
               retain_other_spenders(approvals_of(token_id), spender))
    /\ UNCHANGED <<CONFIG, CONTRACT_PAUSED, ALLOWED_MINTERS, TOKEN_META, TOKEN_OWNERSHIP,
                   OPERATOR_APPROVALS, TOKENS_BY_OWNER, ALL_TOKENS, SERIES_NEXT_SERIAL,
                   TOTAL_SUPPLY, NEXT_TOKEN_ID, RECIPES, SYNTHESIS_HISTORY, env>>

\* cw721.rs execute_revoke
execute_revoke(sender, spender, token_id) ==
    /\ revoke_error(sender, spender, token_id) = "Ok"
    /\ TOKEN_APPROVALS' =
          IF retain_other_spenders(approvals_of(token_id), spender) = << >>
          THEN Remove(TOKEN_APPROVALS, token_id)
          ELSE Save(TOKEN_APPROVALS, token_id,
                    retain_other_spenders(approvals_of(token_id), spender))
    /\ UNCHANGED <<CONFIG, CONTRACT_PAUSED, ALLOWED_MINTERS, TOKEN_META, TOKEN_OWNERSHIP,
                   OPERATOR_APPROVALS, TOKENS_BY_OWNER, ALL_TOKENS, SERIES_NEXT_SERIAL,
                   TOTAL_SUPPLY, NEXT_TOKEN_ID, RECIPES, SYNTHESIS_HISTORY, env>>

\* Expiration { at_height, at_time }
Expiration(at_height, at_time) == [at_height |-> at_height, at_time |-> at_time]

\* a faulty approve_all without the pause check
approve_all_error_ungated(sender, operator) ==
    IF ~addr_validate(operator) THEN "Std" ELSE "Ok"

\* cw721.rs execute_approve_all: the error the call returns
approve_all_error(sender, operator) ==
    IF ~check_contract_paused THEN "ContractPaused"
    ELSE IF ~addr_validate(operator) THEN "Std"
    ELSE "Ok"

\* cw721.rs execute_approve_all
execute_approve_all(sender, operator, expires) ==
    /\ approve_all_error(sender, operator) = "Ok"
    /\ OPERATOR_APPROVALS' =
          Save(OPERATOR_APPROVALS, <<sender, operator>>,
               IF IsSome(expires) THEN Unwrap(expires) ELSE Expiration(None, None))
    /\ UNCHANGED <<CONFIG, CONTRACT_PAUSED, ALLOWED_MINTERS, tokens, RECIPES, env>>

\* cw721.rs execute_revoke_all: the error the call returns
revoke_all_error(sender, operator) ==
    IF ~check_contract_paused THEN "ContractPaused"
    ELSE IF ~addr_validate(operator) THEN "Std"
    ELSE "Ok"

\* cw721.rs execute_revoke_all
execute_revoke_all(sender, operator) ==
    /\ revoke_all_error(sender, operator) = "Ok"
    /\ OPERATOR_APPROVALS' = Remove(OPERATOR_APPROVALS, <<sender, operator>>)
    /\ UNCHANGED <<CONFIG, CONTRACT_PAUSED, ALLOWED_MINTERS, tokens, RECIPES, env>>

\* --------------------------------------------------------------- admin.rs

\* admin.rs execute_update_minter: the error the call returns
update_minter_error(sender, new_minter) ==
    IF ~check_contract_paused THEN "ContractPaused"
    ELSE IF ~is_owner(sender) THEN "Unauthorized"
    ELSE IF ~addr_validate(new_minter) THEN "Std"
    ELSE "Ok"

\* admin.rs execute_update_minter
execute_update_minter(sender, new_minter) ==
    /\ update_minter_error(sender, new_minter) = "Ok"
    /\ CONFIG' = [CONFIG EXCEPT !.minter = new_minter]
    /\ UNCHANGED <<CONTRACT_PAUSED, ALLOWED_MINTERS, tokens, OPERATOR_APPROVALS, RECIPES,
                   env>>

\* a faulty update_base_uri that the pause flag does not gate
update_base_uri_error_ungated(sender) ==
    IF ~is_owner(sender) THEN "Unauthorized" ELSE "Ok"

\* admin.rs execute_update_base_uri: the error the call returns
update_base_uri_error(sender) ==
    IF ~check_contract_paused THEN "ContractPaused"
    ELSE IF ~is_owner(sender) THEN "Unauthorized"
    ELSE "Ok"

\* admin.rs execute_update_base_uri
execute_update_base_uri(sender, base_uri) ==
    /\ update_base_uri_error(sender) = "Ok"
    /\ CONFIG' = [CONFIG EXCEPT !.base_uri = Some(base_uri)]
    /\ UNCHANGED <<CONTRACT_PAUSED, ALLOWED_MINTERS, tokens, OPERATOR_APPROVALS, RECIPES,
                   env>>

\* a faulty pause that the pause flag gates like the ledger's operations
pause_error_gated(sender) ==
    IF ~check_contract_paused THEN "ContractPaused"
    ELSE IF ~is_owner(sender) THEN "Unauthorized"
    ELSE "Ok"

\* admin.rs execute_pause: the error the call returns
pause_error(sender) ==
    IF ~is_owner(sender) THEN "Unauthorized" ELSE "Ok"

\* admin.rs execute_unpause: the error the call returns
unpause_error(sender) ==
    IF ~is_owner(sender) THEN "Unauthorized" ELSE "Ok"

\* a faulty emergency_withdraw that the pause flag gates
emergency_withdraw_error_gated(sender) ==
    IF ~check_contract_paused THEN "ContractPaused"
    ELSE IF ~is_owner(sender) THEN "Unauthorized"
    ELSE "Ok"

\* admin.rs execute_emergency_withdraw: the error the call returns
emergency_withdraw_error(sender) ==
    IF ~is_owner(sender) THEN "Unauthorized" ELSE "Ok"

\* admin.rs execute_pause
execute_pause(sender) ==
    /\ pause_error(sender) = "Ok"
    /\ CONTRACT_PAUSED' = TRUE
    /\ UNCHANGED <<CONFIG, ALLOWED_MINTERS, tokens, OPERATOR_APPROVALS, RECIPES,
                   env>>

\* admin.rs execute_unpause
execute_unpause(sender) ==
    /\ unpause_error(sender) = "Ok"
    /\ CONTRACT_PAUSED' = FALSE
    /\ UNCHANGED <<CONFIG, ALLOWED_MINTERS, tokens, OPERATOR_APPROVALS, RECIPES,
                   env>>

\* admin.rs execute_emergency_withdraw, lines 167-173: one BankMsg::Send to the
\* sender per listed coin
emergency_withdraw_messages(sender, amount) ==
    [i \in 1..Len(amount) |-> [to_address |-> sender, amount |-> <<amount[i]>>]]

\* admin.rs execute_emergency_withdraw: no write to the store
execute_emergency_withdraw(sender, amount) ==
    /\ emergency_withdraw_error(sender) = "Ok"
    /\ UNCHANGED <<ledger, env>>

\* ------------------------------------------- luckee.rs: recipes and minters

\* luckee.rs execute_set_recipe: the error the call returns
set_recipe_error(sender) ==
    IF ~check_contract_paused THEN "ContractPaused"
    ELSE IF ~is_owner(sender) THEN "Unauthorized"
    ELSE "Ok"

\* luckee.rs execute_remove_recipe: the error the call returns
remove_recipe_error(sender) ==
    IF ~check_contract_paused THEN "ContractPaused"
    ELSE IF ~is_owner(sender) THEN "Unauthorized"
    ELSE "Ok"

\* luckee.rs execute_set_recipe
execute_set_recipe(sender, target, recipe) ==
    /\ set_recipe_error(sender) = "Ok"
    /\ RECIPES' = Save(RECIPES, to_key(target), recipe)
    /\ UNCHANGED <<CONFIG, CONTRACT_PAUSED, ALLOWED_MINTERS, tokens, OPERATOR_APPROVALS,
                   env>>

\* a faulty remove_recipe that deletes the recipes of every kind
execute_remove_recipe_every_kind(sender, target) ==
    /\ remove_recipe_error(sender) = "Ok"
    /\ RECIPES' = EmptyMap
    /\ UNCHANGED <<CONFIG, CONTRACT_PAUSED, ALLOWED_MINTERS, tokens, OPERATOR_APPROVALS,
                   env>>

\* luckee.rs execute_remove_recipe
execute_remove_recipe(sender, target) ==
    /\ remove_recipe_error(sender) = "Ok"
    /\ RECIPES' = Remove(RECIPES, to_key(target))
    /\ UNCHANGED <<CONFIG, CONTRACT_PAUSED, ALLOWED_MINTERS, tokens, OPERATOR_APPROVALS,
                   env>>

\* a faulty set_minter that never looks at the caller
set_minter_error_any_caller(sender, minter) ==
    IF ~check_contract_paused THEN "ContractPaused"
    ELSE IF ~addr_validate(minter) THEN "Std"
    ELSE "Ok"

\* luckee.rs execute_set_minter: the error the call returns
set_minter_error(sender, minter) ==
    IF ~check_contract_paused THEN "ContractPaused"
    ELSE IF ~is_owner(sender) THEN "Unauthorized"
    ELSE IF ~addr_validate(minter) THEN "Std"
    ELSE "Ok"

\* luckee.rs execute_set_minter
execute_set_minter(sender, minter, allowed) ==
    /\ set_minter_error(sender, minter) = "Ok"
    /\ ALLOWED_MINTERS' = Save(ALLOWED_MINTERS, minter, allowed)
    /\ UNCHANGED <<CONFIG, CONTRACT_PAUSED, tokens, OPERATOR_APPROVALS, RECIPES,
                   env>>

\* ------------------------------------------------------------ environment

\* the calls the environment makes: senders, token IDs, owners, kinds and series
Holders == {User1, User2}
MintIds == 1..MaxMintId
MintKinds == {Clover}
TokenIds == 0..U64_MAX
S1 == <<"s", "1">>
\* the address the holders approve
Spender == User2

Extension(kind, series_id) ==
    [kind |-> kind, scale_origin |-> "Tiny", physical_sku |-> None,
     crafted_from |-> None, series_id |-> series_id, collection_group_id |-> None,
     serial_in_series |-> 1]

BatchMintItem(token_id, owner, extension) ==
    [token_id |-> token_id, owner |-> owner, extension |-> extension]

Items == {BatchMintItem(id, o, Extension(k, S1)) : id \in MintIds, o \in Holders, k \in MintKinds}
Batches == UNION {[1..n -> Items] : n \in 0..MaxBatch}

\* the input lists of a synthesis, over a set of token IDs
InputLists(ids) == UNION {[1..n -> ids] : n \in 0..MaxInputs}
Targets == {Firefly}

\* the environment mints at most MaxMints tokens into one series
MayMint(series_id, n) == next_serial(SERIES_NEXT_SERIAL, series_id) + n <= MaxMints

\* the token IDs of a batch, in order
BatchIds(mints) == [i \in 1..Len(mints) |-> mints[i].token_id]

Mint ==
    \E sender \in Addr, token_id \in MintIds, owner \in Holders, kind \in MintKinds :
        /\ MayMint(S1, 1)
        /\ execute_mint(sender, token_id, owner, Extension(kind, S1))
        /\ last' = Call("mint", sender, <<token_id>>, {})
        /\ assigned' = assigned \cup {token_id}

BatchMint ==
    \E sender \in Addr, mints \in Batches, wrapping \in BOOLEAN :
        /\ MayMint(S1, Len(mints))
        /\ execute_batch_mint(sender, mints, wrapping)
        /\ last' = Call("batch_mint", sender, BatchIds(mints), {})
        /\ assigned' = assigned \cup Range(BatchIds(mints))

Burn ==
    \E sender \in Addr, token_id \in ALL_TOKENS :
        /\ execute_burn(sender, token_id)
        /\ last' = Call("burn", sender, <<token_id>>, Purged({token_id}))
        /\ UNCHANGED assigned

TransferNft ==
    \E sender \in Addr, recipient \in Holders, token_id \in ALL_TOKENS :
        /\ execute_transfer_nft(sender, recipient, token_id)
        /\ last' = Call("transfer_nft", sender, <<token_id>>, Purged({token_id}))
        /\ UNCHANGED assigned

Approve ==
    \E sender \in Addr, token_id \in ALL_TOKENS :
        /\ execute_approve(sender, Spender, token_id, None)
        /\ last' = Call("approve", sender, <<token_id>>, {})
        /\ UNCHANGED assigned

Revoke ==
    \E sender \in Addr, token_id \in ALL_TOKENS :
        /\ execute_revoke(sender, Spender, token_id)
        /\ last' = Call("revoke", sender, <<token_id>>, {})
        /\ UNCHANGED assigned

ApproveAll ==
    /\ execute_approve_all(User1, Spender, None)
    /\ last' = Call("approve_all", User1, << >>, {})
    /\ UNCHANGED assigned

RevokeAll ==
    /\ execute_revoke_all(User1, Spender)
    /\ last' = Call("revoke_all", User1, << >>, {})
    /\ UNCHANGED assigned

Synthesize ==
    \E sender \in Addr, inputs \in InputLists(ALL_TOKENS), target \in Targets :
        /\ execute_synthesize(sender, inputs, target)
        /\ last' = Call("synthesize", sender, inputs, Purged(Range(inputs)))
        /\ assigned' = assigned \cup {NEXT_TOKEN_ID}

Pause ==
    \E sender \in Addr :
        /\ execute_pause(sender)
        /\ last' = Call("pause", sender, << >>, {})
        /\ UNCHANGED assigned

Unpause ==
    \E sender \in Addr :
        /\ execute_unpause(sender)
        /\ last' = Call("unpause", sender, << >>, {})
        /\ UNCHANGED assigned

Next ==
    \/ Mint
    \/ BatchMint
    \/ Burn
    \/ TransferNft
    \/ Approve
    \/ Revoke
    \/ ApproveAll
    \/ RevokeAll
    \/ Synthesize
    \/ Pause
    \/ Unpause

\* the ledger under its users, its minter and the pause switch
Spec == Init /\ [][Next]_vars

\* ------------------------------------------- environment: administration

\* the recipes the owner stores: one or two Clovers for the target
AdminRecipes(target) == {MkRecipe(<<RecipeInput(Clover, n)>>, target) : n \in 1..MaxInputs}
Coins == {<< >>, <<"uluckee">>, <<"uluckee", "uatom">>}

EmergencyWithdraw ==
    \E sender \in Addr, amount \in Coins :
        /\ execute_emergency_withdraw(sender, amount)
        /\ last' = Call("emergency_withdraw", sender, << >>, {})
        /\ UNCHANGED assigned

SetRecipe ==
    \E sender \in Addr, target \in Targets, recipe \in AdminRecipes(Firefly) :
        /\ execute_set_recipe(sender, target, recipe)
        /\ last' = Call("set_recipe", sender, << >>, {})
        /\ UNCHANGED assigned

RemoveRecipe ==
    \E sender \in Addr, target \in Targets :
        /\ execute_remove_recipe(sender, target)
        /\ last' = Call("remove_recipe", sender, << >>, {})
        /\ UNCHANGED assigned

SetMinter ==
    \E sender \in Addr, minter \in Holders, allowed \in BOOLEAN :
        /\ execute_set_minter(sender, minter, allowed)
        /\ last' = Call("set_minter", sender, << >>, {})
        /\ UNCHANGED assigned

UpdateMinter ==
    \E sender \in Addr, new_minter \in {Minter, User1} :
        /\ execute_update_minter(sender, new_minter)
        /\ last' = Call("update_minter", sender, << >>, {})
        /\ UNCHANGED assigned

UpdateBaseUri ==
    \E sender \in Addr :
        /\ execute_update_base_uri(sender, "ipfs://luckee/")
        /\ last' = Call("update_base_uri", sender, << >>, {})
        /\ UNCHANGED assigned

NextAdmin ==
    \/ Pause
    \/ Unpause
    \/ EmergencyWithdraw
    \/ SetRecipe
    \/ RemoveRecipe
    \/ SetMinter
    \/ UpdateMinter
    \/ UpdateBaseUri
    \/ Mint

\* the ledger under its owner's administration, with the minters minting
SpecAdmin == Init /\ [][NextAdmin]_vars

\* ---------------------------------------------------- ledger invariants

\* the list stored for an owner, an absent entry read as the empty list
owner_list(a) == IF Has(TOKENS_BY_OWNER, a) THEN TOKENS_BY_OWNER[a] ELSE << >>

\* the handlers that take a token away from its owner
Removing == {"transfer_nft", "burn", "synthesize"}

\* C1: after every successful operation the stored total supply equals the number
\* of token IDs in the global existence index.
C1_SupplyEqualsExistingTokens == TOTAL_SUPPLY = Cardinality(ALL_TOKENS)

\* C2: no two live tokens share an ID (the stores are keyed by ID), and a token ID
\* that was assigned and is no longer live, burned or consumed by a synthesis, is
\* never made live again by a mint, a batch_mint or a synthesis output.
C2_BurnedIdNeverReassigned ==
    [][\A id \in assigned \ ALL_TOKENS : id \notin ALL_TOKENS']_vars

\* C3: for every address the owner index lists exactly the token IDs whose
\* ownership record maps to that address, in strictly ascending order, hence
\* without duplicates; an absent list stands for no token.
C3_OwnerIndexConsistent ==
    \A a \in Addr \cup DOMAIN TOKENS_BY_OWNER :
        /\ Range(owner_list(a)) =
              {id \in DOMAIN TOKEN_OWNERSHIP : TOKEN_OWNERSHIP[id] = a}
        /\ \A i \in 1..(Len(owner_list(a)) - 1) : owner_list(a)[i] < owner_list(a)[i + 1]

\* C3 witness: a transfer of token 1 to a holder who already holds token 2
C3_Witness ==
    /\ last.op = "transfer_nft"
    /\ last.ids = <<1>>
    /\ \E a \in Holders : a # last.sender /\ owner_list(a) = <<1, 2>>

\* C4: the global index, the domain of the ownership map and the domain of the
\* metadata map are the same set; every ID of it stands at exactly one place of
\* exactly one owner's list, and no other ID stands in any list.
C4_StoresAgree ==
    /\ ALL_TOKENS = DOMAIN TOKEN_OWNERSHIP
    /\ ALL_TOKENS = DOMAIN TOKEN_META
    /\ \A id \in ALL_TOKENS :
          Cardinality({<<a, i>> \in UNION {{a} \X (1..Len(TOKENS_BY_OWNER[a])) :
                                               a \in DOMAIN TOKENS_BY_OWNER} :
                          TOKENS_BY_OWNER[a][i] = id}) = 1
    /\ \A a \in DOMAIN TOKENS_BY_OWNER : Range(TOKENS_BY_OWNER[a]) \subseteq ALL_TOKENS

\* C4 witness: a synthesis has consumed two tokens of a holder and left the output
C4_Witness ==
    /\ last.op = "synthesize"
    /\ Cardinality(Range(last.ids)) = 2
    /\ ALL_TOKENS # {}
    /\ Range(last.ids) \cap ALL_TOKENS = {}

\* C5: every token ID with a stored approval list is a live token, and right
\* after a successful transfer, burn or synthesis consumption of a token no
\* approval list is stored for it.
C5_ApprovalsOnlyForLiveTokens ==
    /\ DOMAIN TOKEN_APPROVALS \subseteq ALL_TOKENS
    /\ \A id \in DOMAIN TOKEN_APPROVALS : TOKEN_APPROVALS[id] # << >>
    /\ last.op \in Removing => \A id \in Range(last.ids) : ~Has(TOKEN_APPROVALS, id)

\* C5 witness: a transfer of a token that carried an approval, which it deleted
C5_Witness ==
    /\ last.op = "transfer_nft"
    /\ last.purged # {}
    /\ Range(last.ids) \subseteq ALL_TOKENS

\* ------------------------------------------------------------- synthesis

\* C6: a successful synthesize(caller, inputs, target) with pairwise distinct
\* inputs removes every input ID from the metadata, the ownership, the caller's
\* list and the global index and creates exactly one new token: its ID is the
\* value NEXT_TOKEN_ID had before the call, its owner the caller, its kind the
\* target, its crafted_from the inputs in the given order; NEXT_TOKEN_ID grows by
\* 1 and the total supply changes by 1 - |inputs|.
C6_SynthesizeEffect ==
    [][\A target \in NftKind :
          (/\ last'.op = "synthesize"
           /\ Cardinality(Range(last'.ids)) = Len(last'.ids)
           /\ execute_synthesize(last'.sender, last'.ids, target))
          => LET caller == last'.sender
                 inputs == last'.ids
                 output == NEXT_TOKEN_ID
             IN  /\ \A id \in Range(inputs) :
                       /\ ~Has(TOKEN_META', id)
                       /\ ~Has(TOKEN_OWNERSHIP', id)
                       /\ id \notin ALL_TOKENS'
                       /\ id \notin Range(TOKENS_BY_OWNER'[caller])
                 /\ output \notin ALL_TOKENS
                 /\ ALL_TOKENS' = (ALL_TOKENS \ Range(inputs)) \cup {output}
                 /\ DOMAIN TOKEN_META' = ALL_TOKENS'
                 /\ TOKEN_OWNERSHIP'[output] = caller
                 /\ output \in Range(TOKENS_BY_OWNER'[caller])
                 /\ TOKEN_META'[output].kind = target
                 /\ TOKEN_META'[output].crafted_from = Some(inputs)
                 /\ NEXT_TOKEN_ID' = NEXT_TOKEN_ID + 1
                 /\ TOTAL_SUPPLY' = TOTAL_SUPPLY + 1 - Len(inputs)]_vars

\* C6 witness: Clovers 1 and 2, minted one by one on the fresh ledger, synthesized
\* to token 3, the only live token, with supply 1
C6_Witness ==
    /\ last.op = "synthesize"
    /\ last.ids = <<1, 2>>
    /\ ALL_TOKENS = {3}
    /\ TOKEN_META[3].kind = Firefly
    /\ TOKEN_META[3].crafted_from = Some(<<1, 2>>)
    /\ TOKEN_OWNERSHIP[3] = last.sender
    /\ NEXT_TOKEN_ID = 4
    /\ TOTAL_SUPPLY = 1

\* the calls tried in every state: token IDs live, burned and never assigned,
\* lists of them, one list past the length limit, a target with a recipe and one
\* without, valid and invalid addresses and series IDs
ProbeIds == 1..(MaxMintId + 1)
LongInputs == [i \in 1..(MAX_SYNTHESIS_INPUTS + 1) |-> 1]
ProbeInputs == InputLists(ProbeIds) \cup {LongInputs}
ProbeTargets == {Clover, Firefly}
ProbeAddr == Addr \cup {""}
ProbeExtensions == {Extension(Clover, S1), Extension(Clover, << >>), Extension(Clover, <<"!">>)}
ProbeBatches ==
    {<< >>} \cup {<<BatchMintItem(id, o, e)>> : id \in ProbeIds, o \in {User1, ""},
                                                e \in ProbeExtensions}

\* an input that is not a live token / that is owned by another address
not_live(token_id) == ~Has(TOKEN_META, token_id)
foreign(sender, token_id) ==
    Has(TOKEN_OWNERSHIP, token_id) /\ TOKEN_OWNERSHIP[token_id] # sender

\* the positions of the inputs the caller may not consume
offending(sender, inputs) ==
    {i \in 1..Len(inputs) : not_live(inputs[i]) \/ foreign(sender, inputs[i])}

\* C7 as stated: if any listed input is not live the call fails with
\* TokenNotFound, and if any listed input is owned by another address it fails
\* with NotOwned; tried with lists within the length limit and a target that has
\* a recipe.
C7_AsClaimed ==
    \A sender \in Addr, inputs \in InputLists(ProbeIds), target \in Targets :
        /\ (\E i \in 1..Len(inputs) : not_live(inputs[i]))
              => synthesize_error(sender, inputs, target) = "TokenNotFound"
        /\ (\E i \in 1..Len(inputs) : foreign(sender, inputs[i]))
              => synthesize_error(sender, inputs, target) = "NotOwned"

\* C7 amended: if any listed input is not live or is owned by another address,
\* synthesize fails, so that nothing is consumed and nothing created, whatever
\* approvals or operator grants the caller holds.  The error is ContractPaused,
\* TooManyInputs or RecipeNotFound when that earlier check fails; otherwise the
\* first offending input in list order decides: TokenNotFound when it is not
\* live, NotOwned when another address owns it.
C7_OffendingInputRejected ==
    \A sender \in Addr, inputs \in ProbeInputs, target \in ProbeTargets :
        LET err == synthesize_error(sender, inputs, target)
            bad == offending(sender, inputs)
            k == CHOOSE i \in bad : \A j \in bad : i <= j
        IN  bad # {} =>
              /\ err # "Ok"
              /\ err = IF CONTRACT_PAUSED THEN "ContractPaused"
                       ELSE IF Len(inputs) > MAX_SYNTHESIS_INPUTS THEN "TooManyInputs"
                       ELSE IF ~Has(RECIPES, to_key(target)) THEN "RecipeNotFound"
                       ELSE IF not_live(inputs[k]) THEN "TokenNotFound"
                       ELSE "NotOwned"

\* C7 witness: the approved spender, who is also the owner's operator, names the
\* owner's token 1 in a synthesis, after an input that is not live
C7_Witness ==
    /\ ~CONTRACT_PAUSED
    /\ Has(TOKEN_OWNERSHIP, 1) /\ TOKEN_OWNERSHIP[1] = User1
    /\ Has(TOKEN_APPROVALS, 1) /\ TOKEN_APPROVALS[1][1].spender = Spender
    /\ Has(OPERATOR_APPROVALS, <<User1, Spender>>)
    /\ not_live(2)
    /\ synthesize_error(Spender, <<1, 1>>, Firefly) = "NotOwned"
    /\ synthesize_error(Spender, <<2, 1>>, Firefly) = "TokenNotFound"
    /\ synthesize_error(User1, <<1, 1>>, Firefly) = "Ok"

\* ----------------------------------------------------------------- pause

\* the handlers the pause flag gates among the ledger's operations
Gated ==
    {"transfer_nft", "approve", "revoke", "approve_all", "revoke_all", "mint", "burn",
     "batch_mint", "synthesize"}

\* C8: while the pause flag is set, every call of transfer, approve, revoke,
\* approve_all, revoke_all, mint, burn, batch_mint and synthesize fails with
\* ContractPaused, whoever calls and whatever the arguments, valid or not; a
\* failed call leaves the ledger as it is, so none of them is the last
\* successful call of a paused ledger.
C8_PausedRejectsLedgerCalls ==
    /\ CONTRACT_PAUSED =>
          \A sender \in Addr, other \in ProbeAddr :
              /\ approve_all_error(sender, other) = "ContractPaused"
              /\ revoke_all_error(sender, other) = "ContractPaused"
              /\ \A mints \in ProbeBatches, wrapping \in BOOLEAN :
                    batch_mint_error(sender, mints, wrapping) = "ContractPaused"
              /\ \A inputs \in ProbeInputs, target \in ProbeTargets :
                    synthesize_error(sender, inputs, target) = "ContractPaused"
              /\ \A token_id \in ProbeIds :
                    /\ transfer_nft_error(sender, other, token_id) = "ContractPaused"
                    /\ approve_error(sender, other, token_id) = "ContractPaused"
                    /\ revoke_error(sender, other, token_id) = "ContractPaused"
                    /\ burn_error(sender, token_id) = "ContractPaused"
                    /\ \A extension \in ProbeExtensions :
                          mint_error(sender, token_id, other, extension) = "ContractPaused"
    /\ last.op \in Gated => ~CONTRACT_PAUSED

\* C8 witness: a paused ledger that holds a token with an approval, so that the
\* rejected calls include ones that would succeed on the unpaused ledger
C8_Witness ==
    /\ CONTRACT_PAUSED
    /\ last.op = "pause"
    /\ \E id \in ALL_TOKENS : Has(TOKEN_APPROVALS, id)
    /\ MayMint(S1, 1)

\* the ledger without the pause flag
unpaused_part ==
    <<CONFIG, ALLOWED_MINTERS, TOKEN_META, TOKEN_OWNERSHIP, TOKEN_APPROVALS,
      OPERATOR_APPROVALS, TOKENS_BY_OWNER, ALL_TOKENS, SERIES_NEXT_SERIAL, TOTAL_SUPPLY,
      NEXT_TOKEN_ID, RECIPES, SYNTHESIS_HISTORY>>

\* C9: pause and unpause called by the owner succeed in every state, whatever the
\* flag is, and change nothing but the flag: pause sets it, unpause clears it.
\* After unpause the ledger is the one it was before the pause with the flag
\* clear, so every call is answered as if it had never been paused; a mint by
\* the minter of the next free ID is accepted again while no counter is at its
\* maximum.
C9_PauseOnlyTogglesFlag ==
    [][/\ pause_error(Creator) = "Ok"
       /\ unpause_error(Creator) = "Ok"
       /\ ENABLED execute_pause(Creator)
       /\ ENABLED execute_unpause(Creator)
       /\ last'.op = "pause" => (CONTRACT_PAUSED' /\ UNCHANGED unpaused_part)
       /\ last'.op = "unpause" =>
             /\ ~CONTRACT_PAUSED'
             /\ UNCHANGED unpaused_part
             /\ (MayMint(S1, 1) /\ NEXT_TOKEN_ID < U64_MAX /\ TOTAL_SUPPLY < U64_MAX) =>
                   mint_error(Minter, NEXT_TOKEN_ID, User1, Extension(Clover, S1))' = "Ok"]_vars

\* C9 witness: an unpause that has reopened a ledger holding a token
C9_Witness ==
    /\ last.op = "unpause"
    /\ last.sender = Creator
    /\ ~CONTRACT_PAUSED
    /\ ALL_TOKENS # {}
    /\ MayMint(S1, 1)

AdminOps == {"pause", "unpause", "emergency_withdraw", "set_recipe", "remove_recipe",
             "set_minter", "update_minter", "update_base_uri"}

\* the error each of the eight owner-only calls returns to a sender
admin_errors(sender) ==
    {pause_error(sender), unpause_error(sender), emergency_withdraw_error(sender),
     set_recipe_error(sender), remove_recipe_error(sender), update_base_uri_error(sender)}
    \cup {set_minter_error(sender, m) : m \in ProbeAddr}
    \cup {update_minter_error(sender, m) : m \in ProbeAddr}

\* C11: none of pause, unpause, emergencyWithdraw, setRecipe, removeRecipe,
\* setMinterAllowance, updateMinter and updateBaseUri is accepted from a sender
\* other than the owner recorded at instantiation; the pause flag, the recipe
\* store, the allowed-minters set and the config change only in a step of one
\* of these calls sent by the owner, and the recorded owner never changes.
C11_OwnerOnlyAdministration ==
    [][ /\ \A sender \in ProbeAddr \ {CONFIG.owner} : "Ok" \notin admin_errors(sender)
        /\ CONFIG'.owner = CONFIG.owner
        /\ CONFIG.owner = Creator
        /\ <<CONTRACT_PAUSED, RECIPES, ALLOWED_MINTERS, CONFIG>>'
               # <<CONTRACT_PAUSED, RECIPES, ALLOWED_MINTERS, CONFIG>>
           => last'.op \in AdminOps /\ last'.sender = Creator ]_vars

\* the owner has changed the minter and the allowance of a holder, and on the
\* unpaused contract a holder's own administrative calls are refused
C11_Witness ==
    /\ last.op = "set_minter"
    /\ CONFIG.minter = User1
    /\ Has(ALLOWED_MINTERS, User2)
    /\ ~CONTRACT_PAUSED
    /\ admin_errors(User1) = {"Unauthorized"}

\* ------------------------------------------------- C12: who may mint

NextMinters ==
    \/ Mint
    \/ BatchMint
    \/ SetMinter
    \/ UpdateMinter
    \/ Pause
    \/ Unpause

\* the ledger under its minters, with the owner changing who may mint
SpecMinters == Init /\ [][NextMinters]_vars

\* the sender is the config's minter or the allowed-minters map holds true for it
may_mint(sender) ==
    sender = CONFIG.minter \/ (Has(ALLOWED_MINTERS, sender) /\ ALLOWED_MINTERS[sender] = TRUE)

\* the errors mint and batch_mint return to a sender, over the probed arguments
minting_errors(sender) ==
    {mint_error(sender, token_id, owner, extension) :
        token_id \in ProbeIds, owner \in ProbeAddr, extension \in ProbeExtensions}
    \cup {batch_mint_error(sender, mints, wrapping) :
             mints \in ProbeBatches, wrapping \in BOOLEAN}

\* C12: mint and batch_mint are accepted only from the config's current minter
\* or from an address the allowed-minters map holds true for; from any other
\* sender they fail, on the unpaused contract with MinterNotAuthorized, and no
\* token is created.  After update_minter the former minter is refused unless
\* it is allow-listed, and after set_minter(x, false) x is refused unless it is
\* the config's minter.
C12_OnlyAuthorizedMintersMint ==
    [][ /\ \A sender \in ProbeAddr :
              ~may_mint(sender) =>
                  /\ "Ok" \notin minting_errors(sender)
                  /\ ~CONTRACT_PAUSED => minting_errors(sender) = {"MinterNotAuthorized"}
        /\ tokens' # tokens => last'.op \in {"mint", "batch_mint"} /\ may_mint(last'.sender)
        /\ \A former \in Addr :
              /\ last'.op = "update_minter"
              /\ former = CONFIG.minter /\ CONFIG'.minter # former
              /\ ~(Has(ALLOWED_MINTERS, former) /\ ALLOWED_MINTERS[former])
              => ("Ok" \notin minting_errors(former))'
        /\ \A x \in Holders :
              /\ last'.op = "set_minter"
              /\ Has(ALLOWED_MINTERS', x) /\ ALLOWED_MINTERS'[x] = FALSE
              /\ CONFIG.minter # x
              => ("Ok" \notin minting_errors(x))' ]_vars

\* a holder that was allowed and has minted is no longer allowed, and the
\* minter of the instantiation has been replaced and is not allow-listed
C12_Witness ==
    /\ \E id \in ALL_TOKENS : TRUE
    /\ CONFIG.minter = User1
    /\ ~Has(ALLOWED_MINTERS, Minter)
    /\ Has(ALLOWED_MINTERS, User2) /\ ALLOWED_MINTERS[User2] = FALSE
    /\ ~CONTRACT_PAUSED
    /\ minting_errors(Minter) = {"MinterNotAuthorized"}
    /\ minting_errors(User2) = {"MinterNotAuthorized"}
    /\ "Ok" \in minting_errors(User1)

\* ------------------------------------------- C13, C14: who may transfer

\* the sender holds an approval of the token / a grant of the token's owner
approved_for(sender, token_id) ==
    \E i \in 1..Len(approvals_of(token_id)) : approvals_of(token_id)[i].spender = sender
operator_of(sender, owner) == Has(OPERATOR_APPROVALS, <<owner, sender>>)

C14_OperatorTransfers ==
    \A owner \in Addr, operator \in Addr, recipient \in Holders, token_id \in ALL_TOKENS :
        /\ ~CONTRACT_PAUSED
        /\ TOKEN_OWNERSHIP[token_id] = owner
        /\ operator # owner
        /\ operator_of(operator, owner)
        /\ OPERATOR_APPROVALS[<<owner, operator>>] = Expiration(None, None)
        => transfer_nft_error(operator, recipient, token_id) = "Ok"

\* ------------------------------------------------ C15: effect of transfer

\* what a transfer of token_id from sender to recipient does to the ledger
transfer_effect(sender, recipient, token_id) ==
    /\ TOKEN_OWNERSHIP[token_id] = sender
    /\ TOKEN_OWNERSHIP'[token_id] = recipient
    /\ DOMAIN TOKEN_OWNERSHIP' = DOMAIN TOKEN_OWNERSHIP
    /\ ~Has(TOKEN_APPROVALS', token_id)
    /\ \A id \in ALL_TOKENS \ {token_id} :
          /\ TOKEN_OWNERSHIP'[id] = TOKEN_OWNERSHIP[id]
          /\ approvals_of(id)' = approvals_of(id)
    /\ sender # recipient =>
          /\ Range(owner_list(sender))' = Range(owner_list(sender)) \ {token_id}
          /\ Len(owner_list(sender))' = Len(owner_list(sender)) - 1
          /\ Len(owner_list(recipient))' = Len(owner_list(recipient)) + 1
    /\ Range(owner_list(recipient))' = Range(owner_list(recipient)) \cup {token_id}
    /\ \A a \in Addr \ {sender, recipient} : owner_list(a)' = owner_list(a)
    /\ UNCHANGED <<TOTAL_SUPPLY, NEXT_TOKEN_ID, TOKEN_META, ALL_TOKENS, SERIES_NEXT_SERIAL,
                   OPERATOR_APPROVALS>>

\* C15: a successful transfer(sender, recipient, T) sets T's owner to the
\* recipient, moves T from the sender's list to the recipient's, deletes every
\* approval of T, and leaves unchanged the total supply, the next token ID,
\* the metadata, the global index, the series counters, the operator approvals
\* and the owner and approvals of every other token.
C15_TransferEffect ==
    [][ /\ \A sender \in Addr, recipient \in Holders, token_id \in ALL_TOKENS :
              execute_transfer_nft(sender, recipient, token_id)
              => transfer_effect(sender, recipient, token_id)
        /\ last'.op = "transfer_nft"
           => \E sender \in Addr, recipient \in Holders, token_id \in ALL_TOKENS :
                 /\ last' = Call("transfer_nft", sender, <<token_id>>, Purged({token_id}))
                 /\ execute_transfer_nft(sender, recipient, token_id)
                 /\ transfer_effect(sender, recipient, token_id) ]_vars

\* after approve(user1, user2, T) user1 has transferred T to user2: T has no
\* approvals and its owner is user2, while another token keeps its approval
C15_Witness ==
    /\ last = Call("transfer_nft", User1, last.ids, Range(last.ids))
    /\ \A id \in Range(last.ids) :
          /\ TOKEN_OWNERSHIP[id] = User2
          /\ approvals_of(id) = << >>
          /\ id \notin Range(owner_list(User1))
    /\ \E other \in ALL_TOKENS \ Range(last.ids) : approved_for(Spender, other)

\* ------------------------------------------- C16: the size of a batch

\* a second series, for the full batches
S2 == <<"s", "2">>

\* a batch of n items with the fresh IDs MaxMintId + 1 .. MaxMintId + n
FreshBatch(n, owner) ==
    [i \in 1..n |-> BatchMintItem(MaxMintId + i, owner, Extension(Clover, S2))]

\* the environment mints one batch of exactly MAX_BATCH_MINT items
BatchMintFull ==
    \E sender \in Addr, owner \in Holders, wrapping \in BOOLEAN :
        LET mints == FreshBatch(MAX_BATCH_MINT, owner)
        IN  /\ execute_batch_mint(sender, mints, wrapping)
            /\ last' = Call("batch_mint", sender, BatchIds(mints), {})
            /\ assigned' = assigned \cup Range(BatchIds(mints))

NextBatch ==
    \/ Mint
    \/ BatchMintFull
    \/ UpdateMinter
    \/ Pause
    \/ Unpause

\* the ledger under minters that mint single tokens and full batches
SpecBatch == Init /\ [][NextBatch]_vars

\* the batches past the limit: fresh valid items, and one live ID repeated
OverlongBatches ==
    {FreshBatch(MAX_BATCH_MINT + 1, owner) : owner \in Holders}
    \cup {[i \in 1..(MAX_BATCH_MINT + 1) |-> BatchMintItem(1, "", Extension(Clover, << >>))]}

\* C16 as stated: a batch_mint of more than 100 items sent by an authorized
\* minter fails with TooManyTokens, whatever the state of the contract.
C16_AsClaimed ==
    \A sender \in Addr, mints \in OverlongBatches, wrapping \in BOOLEAN :
        may_mint(sender) => batch_mint_error(sender, mints, wrapping) = "TooManyTokens"

\* C16: while the contract is not paused, a batch_mint of more than 100 items
\* sent by an authorized minter fails with TooManyTokens, whatever the items,
\* and writes nothing (while it is paused it fails with ContractPaused); a
\* batch of exactly 100 valid, fresh items is accepted on the unpaused contract
\* and all 100 tokens exist afterwards.
C16_BatchSizeLimit ==
    [][ /\ \A sender \in Addr, wrapping \in BOOLEAN :
              may_mint(sender) =>
                  /\ \A mints \in OverlongBatches :
                        batch_mint_error(sender, mints, wrapping) =
                            IF CONTRACT_PAUSED THEN "ContractPaused" ELSE "TooManyTokens"
                  /\ \A owner \in Holders :
                        /\ ~CONTRACT_PAUSED
                        /\ Range(BatchIds(FreshBatch(MAX_BATCH_MINT, owner))) \cap ALL_TOKENS = {}
                        => batch_mint_error(sender, FreshBatch(MAX_BATCH_MINT, owner),
                                            wrapping) = "Ok"
        /\ last'.op = "batch_mint" => Len(last'.ids) <= MAX_BATCH_MINT
        /\ last'.op = "batch_mint" /\ last' # last =>
              \A id \in Range(last'.ids) :
                  /\ id \in ALL_TOKENS'
                  /\ Has(TOKEN_META', id)
                  /\ Has(TOKEN_OWNERSHIP', id)
                  /\ id \in Range(owner_list(TOKEN_OWNERSHIP[id]))' ]_vars

\* a full batch of 100 items has been minted next to an earlier token
C16_Witness ==
    /\ last.op = "batch_mint"
    /\ Len(last.ids) = MAX_BATCH_MINT
    /\ Cardinality(Range(last.ids)) = MAX_BATCH_MINT
    /\ Range(last.ids) \subseteq ALL_TOKENS
    /\ Cardinality(ALL_TOKENS) > MAX_BATCH_MINT

\* ------------------------------------- C17: a batch with a taken token ID

\* the items and the batches of one or two items tried in every state
ProbeItems ==
    {BatchMintItem(id, o, Extension(Clover, S1)) : id \in ProbeIds, o \in {User1, ""}}
ProbePairs == ProbeBatches \cup {<<a, b>> : a, b \in ProbeItems}

\* the batch names an ID twice, or an ID of a live token
colliding(mints) ==
    \/ \E i, j \in 1..Len(mints) : i # j /\ mints[i].token_id = mints[j].token_id
    \/ \E i \in 1..Len(mints) : mints[i].token_id \in ALL_TOKENS

\* C17 as stated: every batch_mint whose list names an ID twice or names a live
\* ID fails with TokenAlreadyExists.
C17_AsClaimed ==
    \A sender \in Addr, mints \in ProbePairs, wrapping \in BOOLEAN :
        colliding(mints) => batch_mint_error(sender, mints, wrapping) = "TokenAlreadyExists"

\* C17: a batch_mint of at most 100 items whose list names an ID twice or
\* names a live ID, sent by an authorized minter to the unpaused contract,
\* fails with TokenAlreadyExists whatever else its items hold; a paused
\* contract answers ContractPaused, an unauthorized sender gets
\* MinterNotAuthorized and a list of more than 100 items TooManyTokens.  The
\* call writes nothing: every batch that takes effect names pairwise distinct
\* IDs none of which was live.
C17_CollidingBatchRejected ==
    [][ /\ \A sender \in Addr, wrapping \in BOOLEAN :
              /\ \A mints \in ProbePairs :
                    colliding(mints) =>
                        batch_mint_error(sender, mints, wrapping) =
                            IF CONTRACT_PAUSED THEN "ContractPaused"
                            ELSE IF ~may_mint(sender) THEN "MinterNotAuthorized"
                            ELSE "TokenAlreadyExists"
              /\ \A mints \in OverlongBatches :
                    /\ mints[1].token_id = mints[2].token_id
                    /\ ~CONTRACT_PAUSED /\ may_mint(sender)
                    => batch_mint_error(sender, mints, wrapping) = "TooManyTokens"
        /\ last'.op = "batch_mint" /\ tokens' # tokens =>
              /\ Range(last'.ids) \cap ALL_TOKENS = {}
              /\ Cardinality(Range(last'.ids)) = Len(last'.ids) ]_vars

\* on the unpaused ledger with a live token a second minter is allowed, so that
\* batches naming the live ID, and batches naming a fresh ID twice, are refused
C17_Witness ==
    /\ ~CONTRACT_PAUSED
    /\ ALL_TOKENS = {1}
    /\ may_mint(User1) /\ may_mint(Minter) /\ ~may_mint(User2)
    /\ \E mints \in ProbePairs :
          /\ Len(mints) = 2 /\ mints[1].token_id = 2 /\ mints[2].token_id = 2
          /\ batch_mint_error(User1, mints, FALSE) = "TokenAlreadyExists"
    /\ \E mints \in ProbePairs :
          /\ Len(mints) = 2 /\ mints[1].token_id = 2 /\ mints[2].token_id = 1
          /\ batch_mint_error(Minter, mints, FALSE) = "TokenAlreadyExists"

\* ------------------------------------------ C18: the size of a synthesis

\* the recipes of MAX_SYNTHESIS_INPUTS Clovers and of one more
FullRecipes(target) ==
    {MkRecipe(<<RecipeInput(Clover, n)>>, target) :
        n \in MAX_SYNTHESIS_INPUTS..(MAX_SYNTHESIS_INPUTS + 1)}

\* the first n tokens of a holder's list
Held(owner, n) == SubSeq(owner_list(owner), 1, n)

SetRecipeFull ==
    \E sender \in Addr, target \in Targets, recipe \in FullRecipes(Firefly) :
        /\ execute_set_recipe(sender, target, recipe)
        /\ last' = Call("set_recipe", sender, << >>, {})
        /\ UNCHANGED assigned

\* a holder hands in the first MAX_SYNTHESIS_INPUTS tokens of its list
SynthesizeFull ==
    \E sender \in Holders, target \in Targets :
        LET inputs == Held(sender, MAX_SYNTHESIS_INPUTS)
        IN  /\ Len(owner_list(sender)) >= MAX_SYNTHESIS_INPUTS
            /\ execute_synthesize(sender, inputs, target)
            /\ last' = Call("synthesize", sender, inputs, Purged(Range(inputs)))
            /\ assigned' = assigned \cup {NEXT_TOKEN_ID}

NextFull ==
    \/ Mint
    \/ BatchMintFull
    \/ SetRecipeFull
    \/ SynthesizeFull
    \/ Pause
    \/ Unpause

\* the ledger with full batches, recipes at the input limit and syntheses of
\* MAX_SYNTHESIS_INPUTS inputs
SpecFull == Init /\ [][NextFull]_vars

\* the input lists past the limit a sender can hand in: one ID repeated, and
\* the first tokens of its list when it holds enough
overlong_inputs(sender) ==
    {LongInputs} \cup
    (IF Len(owner_list(sender)) > MAX_SYNTHESIS_INPUTS
     THEN {Held(sender, MAX_SYNTHESIS_INPUTS + 1)} ELSE {})

\* the input lists of exactly MAX_SYNTHESIS_INPUTS IDs
limit_inputs(sender) ==
    {[i \in 1..MAX_SYNTHESIS_INPUTS |-> 1]} \cup
    (IF Len(owner_list(sender)) >= MAX_SYNTHESIS_INPUTS
     THEN {Held(sender, MAX_SYNTHESIS_INPUTS)} ELSE {})

\* the inputs are distinct Clovers of the sender, enough of them for the stored
\* recipe
clovers_for(sender, inputs, target) ==
    /\ Cardinality(Range(inputs)) = Len(inputs)
    /\ \A i \in 1..Len(inputs) :
          /\ Has(TOKEN_META, inputs[i]) /\ TOKEN_META[inputs[i]].kind = Clover
          /\ TOKEN_OWNERSHIP[inputs[i]] = sender
    /\ Has(RECIPES, to_key(target))
    /\ \A j \in 1..Len(RECIPES[to_key(target)].inputs) :
          /\ RECIPES[to_key(target)].inputs[j].nft_kind = Clover
          /\ RECIPES[to_key(target)].inputs[j].count <= Len(inputs)

\* C18 as stated: every synthesize with more than 50 inputs fails with
\* TooManyInputs.
C18_AsClaimed ==
    \A sender \in Holders, target \in ProbeTargets :
        \A inputs \in overlong_inputs(sender) :
            synthesize_error(sender, inputs, target) = "TooManyInputs"

\* C18: while the contract is not paused, synthesize with more than 50 inputs
\* fails with TooManyInputs, whether or not the target has a recipe and
\* whether or not the inputs are valid, and writes nothing (while it is paused
\* the call fails with ContractPaused); a list of exactly 50 inputs is never
\* refused with TooManyInputs, and 50 valid inputs are accepted.
C18_SynthesisSizeLimit ==
    [][ /\ \A sender \in Holders, target \in ProbeTargets :
              /\ \A inputs \in overlong_inputs(sender) :
                    synthesize_error(sender, inputs, target) =
                        IF CONTRACT_PAUSED THEN "ContractPaused" ELSE "TooManyInputs"
              /\ \A inputs \in limit_inputs(sender) :
                    /\ synthesize_error(sender, inputs, target) # "TooManyInputs"
                    /\ ~CONTRACT_PAUSED /\ clovers_for(sender, inputs, target)
                       => synthesize_error(sender, inputs, target) = "Ok"
        /\ last'.op = "synthesize" => Len(last'.ids) <= MAX_SYNTHESIS_INPUTS ]_vars

\* a holder that has synthesized from 50 inputs holds 51 Clovers on the unpaused
\* ledger, valid inputs of the stored recipe, and the 51 are refused
C18_Witness ==
    /\ ~CONTRACT_PAUSED
    /\ \E id \in ALL_TOKENS :
          /\ TOKEN_META[id].kind = Firefly
          /\ TOKEN_META[id].crafted_from # None
          /\ Len(Unwrap(TOKEN_META[id].crafted_from)) = MAX_SYNTHESIS_INPUTS
    /\ Len(owner_list(User1)) > MAX_SYNTHESIS_INPUTS
    /\ clovers_for(User1, Held(User1, MAX_SYNTHESIS_INPUTS + 1), Firefly)
    /\ synthesize_error(User1, Held(User1, MAX_SYNTHESIS_INPUTS + 1), Firefly) = "TooManyInputs"

\* --------------------------------------------- C19: the largest token ID

\* C19: while u64::MAX is not live, a mint of token_id = u64::MAX by an
\* authorized minter on the unpaused contract is accepted.
C19_MintAtMaxAccepted ==
    \A sender \in Addr, owner \in Holders :
        /\ ~CONTRACT_PAUSED
        /\ may_mint(sender)
        /\ ~Has(TOKEN_META, U64_MAX) /\ U64_MAX \notin ALL_TOKENS
        => mint_error(sender, U64_MAX, owner, Extension(Clover, S1)) = "Ok"

\* ------------------------------------------------------- cw721.rs: queries

\* the largest page a query returns, and the page size when none is asked for
MAX_LIMIT == 30

\* Iterator::skip_while(|id| id <= start), Iterator::skip(n), Iterator::take(n)
skip_while_le(ids, start) ==
    LET kept == {i \in 1..Len(ids) : \E j \in 1..i : ids[j] > start}
    IN  SubSeq(ids, Len(ids) - Cardinality(kept) + 1, Len(ids))
skip(ids, n) == SubSeq(ids, n + 1, Len(ids))
take(ids, n) == SubSeq(ids, 1, IF n < Len(ids) THEN n ELSE Len(ids))

\* ALL_TOKENS.keys(.., Order::Ascending)
keys_ascending(stored) ==
    [i \in 1..Cardinality(stored) |->
        CHOOSE id \in stored : Cardinality({other \in stored : other < id}) = i - 1]

\* the page size: limit.unwrap_or(30).min(30)
page_size(limit) ==
    LET asked == IF IsSome(limit) THEN Unwrap(limit) ELSE MAX_LIMIT
    IN  IF asked < MAX_LIMIT THEN asked ELSE MAX_LIMIT

\* TokensResponse: the IDs as decimal strings
TokensResponse(ids) == [i \in 1..Len(ids) |-> to_string(ids[i])]

\* cw721.rs query_all_tokens
query_all_tokens(start_after, limit) ==
    LET start == IF IsSome(start_after) THEN Unwrap(start_after) ELSE 0
    IN  TokensResponse(
            take(skip(skip_while_le(keys_ascending(ALL_TOKENS), start),
                      IF IsSome(start_after) THEN 1 ELSE 0),
                 page_size(limit)))

\* cw721.rs query_tokens, for an owner that passes addr_validate
query_tokens(owner, start_after, limit) ==
    LET held == IF Has(TOKENS_BY_OWNER, owner) THEN TOKENS_BY_OWNER[owner] ELSE << >>
        kept == IF IsSome(start_after) THEN skip_while_le(held, Unwrap(start_after))
                ELSE held
    IN  TokensResponse(
            take(skip(kept, IF IsSome(start_after) THEN 1 ELSE 0), page_size(limit)))

\* ---------------------------------------------------- C20: pages of IDs

\* the n smallest IDs of a set that are greater than start_after, ascending
page_after(ids, start_after, n) ==
    LET above == {id \in ids : id > start_after}
    IN  take(keys_ascending(above), n)

\* the start_after values and limits asked for
QueryStarts == 0..(MaxMintId + 1)
QueryLimits == {1, MaxMintId, MAX_LIMIT, MAX_LIMIT + 1}

\* C20: all_tokens(start_after = X, limit = L) returns the min(L, 30) smallest
\* live token IDs strictly greater than X in ascending order, and tokens(owner,
\* X, L) returns the same over the IDs of the owner.
C20_PageFollowsStartAfter ==
    \A X \in QueryStarts, L \in QueryLimits :
        /\ query_all_tokens(Some(X), Some(L)) =
              TokensResponse(page_after(ALL_TOKENS, X, IF L < 30 THEN L ELSE 30))
        /\ \A owner \in Holders :
              query_tokens(owner, Some(X), Some(L)) =
                  TokensResponse(page_after(Range(owner_list(owner)), X,
                                            IF L < 30 THEN L ELSE 30))

\* ------------------------------------ C21: transfer of a token never minted

\* C21: a transfer_nft whose token ID has no ownership record fails with
\* TokenNotFound, the kind burn reports for a token that does not exist, whoever
\* sends it and whoever is to receive it.
C21_TransferOfMissingTokenNotFound ==
    \A sender \in Addr, recipient \in Holders, token_id \in ProbeIds :
        /\ ~CONTRACT_PAUSED
        /\ ~Has(TOKEN_OWNERSHIP, token_id)
        => /\ burn_error(sender, token_id) = "TokenNotFound"
           /\ transfer_nft_error(sender, recipient, token_id) = "TokenNotFound"

\* ------------------------------------------- C22: counters in a narrow word

\* a batch of n items with the IDs first .. first + n - 1
BatchFrom(first, n, owner) ==
    [i \in 1..n |-> BatchMintItem(first + i - 1, owner, Extension(Clover, S2))]

\* the environment mints a batch of MAX_BATCH_MINT items with the next free IDs
BatchMintNext ==
    \E sender \in Addr, owner \in Holders, wrapping \in BOOLEAN :
        LET mints == BatchFrom(NEXT_TOKEN_ID, MAX_BATCH_MINT, owner)
        IN  /\ execute_batch_mint(sender, mints, wrapping)
            /\ last' = Call("batch_mint", sender, BatchIds(mints), {})
            /\ assigned' = assigned \cup Range(BatchIds(mints))

NextCounters ==
    \/ Mint
    \/ BatchMintNext
    \/ Pause
    \/ Unpause

\* the ledger under minters that fill the token ID range with full batches
SpecCounters == Init /\ [][NextCounters]_vars

\* C22: no counter wraps in the narrow word: a batch_mint whose count of the
\* supply leaves the range fails with Overflow, in either build, and a mint or a
\* batch_mint that succeeds lowers neither the total supply, nor the next token
\* ID, nor the serial counter of a series.
C22_CountersNeverWrap ==
    [][/\ \A wrapping \in BOOLEAN :
              batch_mint_error(CONFIG.minter,
                               BatchFrom(NEXT_TOKEN_ID, MAX_BATCH_MINT, User1),
                               wrapping) # "Panic"
       /\ last'.op \in {"mint", "batch_mint"}
          => /\ TOTAL_SUPPLY' > TOTAL_SUPPLY
             /\ NEXT_TOKEN_ID' >= NEXT_TOKEN_ID
             /\ \A s \in DOMAIN SERIES_NEXT_SERIAL :
                    next_serial(SERIES_NEXT_SERIAL, s)' >= next_serial(SERIES_NEXT_SERIAL, s)
      ]_vars

\* --------------------------------------- C23: batch_mint against single mints

\* luckee.rs execute_mint, lines 94-120: the writes of one accepted mint, on the
\* writes staged so far
mint_staged(acc, item) ==
    [err |-> "Ok",
     next_id |-> Unwrap(advance_next_id(acc.next_id, item.token_id)),
     meta |-> Save(acc.meta, item.token_id, item.extension),
     owners |-> Save(acc.owners, item.token_id, item.owner),
     by_owner |-> add_token_to_owner(acc.by_owner, item.owner, item.token_id),
     all |-> acc.all \cup {item.token_id},
     serials |-> Save(acc.serials, item.extension.series_id,
                      Unwrap(checked_add(next_serial(acc.serials, item.extension.series_id), 1))),
     supply |-> Unwrap(checked_add(acc.supply, 1))]

\* the writes of the mints of the items i.. of a list, one call after the other
RECURSIVE mints_in_order(_, _, _)
mints_in_order(acc, mints, i) ==
    IF i > Len(mints) THEN acc
    ELSE mints_in_order(mint_staged(acc, mints[i]), mints, i + 1)

\* the ledger after the items of a list were minted one by one, from this state
minted_one_by_one(mints) ==
    mints_in_order([err |-> "Ok", next_id |-> NEXT_TOKEN_ID, meta |-> TOKEN_META,
                    owners |-> TOKEN_OWNERSHIP, by_owner |-> TOKENS_BY_OWNER,
                    all |-> ALL_TOKENS, serials |-> SERIES_NEXT_SERIAL,
                    supply |-> TOTAL_SUPPLY],
                   mints, 1)

\* C23: a batch_mint that succeeds leaves the ledger as the mints of its items,
\* sent one after the other in the same order, would: the same metadata,
\* ownership, owner index, global index, serial counters and next token ID, and
\* a total supply raised by exactly the number of items.
C23_BatchEqualsMintsInOrder ==
    [][\A sender \in Addr, mints \in Batches, wrapping \in BOOLEAN :
          /\ last' = Call("batch_mint", sender, BatchIds(mints), {})
          /\ execute_batch_mint(sender, mints, wrapping)
          => /\ TOTAL_SUPPLY' = TOTAL_SUPPLY + Len(mints)
             /\ <<TOKEN_META', TOKEN_OWNERSHIP', TOKENS_BY_OWNER', ALL_TOKENS',
                  SERIES_NEXT_SERIAL', NEXT_TOKEN_ID', TOTAL_SUPPLY'>>
                = <<minted_one_by_one(mints).meta, minted_one_by_one(mints).owners,
                    minted_one_by_one(mints).by_owner, minted_one_by_one(mints).all,
                    minted_one_by_one(mints).serials, minted_one_by_one(mints).next_id,
                    minted_one_by_one(mints).supply>>
      ]_vars

\* ------------------------------------------------ C24: the next token ID

\* C24: the next token ID starts at 1 and never decreases. A mint, and every
\* item of a batch_mint, with an ID at or above the counter sets it to that ID
\* plus one, and with an ID below the counter leaves it; a synthesis advances it
\* by exactly one; no other call touches it. After every step it is strictly
\* greater than every token ID assigned so far, and the ID a synthesis gives its
\* output was the counter: neither live nor the ID of any earlier token.
C24_NextTokenIdAboveAssigned ==
    /\ NEXT_TOKEN_ID = FIRST_TOKEN_ID
    /\ [][/\ NEXT_TOKEN_ID' >= NEXT_TOKEN_ID
          /\ \A id \in assigned' : id < NEXT_TOKEN_ID'
          /\ last'.op = "mint"
             => NEXT_TOKEN_ID' = IF last'.ids[1] >= NEXT_TOKEN_ID
                                 THEN last'.ids[1] + 1 ELSE NEXT_TOKEN_ID
          /\ last'.op = "batch_mint"
             => /\ \A id \in Range(last'.ids) : id < NEXT_TOKEN_ID'
                /\ \/ NEXT_TOKEN_ID' = NEXT_TOKEN_ID
                   \/ \E id \in Range(last'.ids) :
                          id >= NEXT_TOKEN_ID /\ NEXT_TOKEN_ID' = id + 1
          /\ last'.op = "synthesize"
             => /\ NEXT_TOKEN_ID' = NEXT_TOKEN_ID + 1
                /\ NEXT_TOKEN_ID \notin ALL_TOKENS \cup assigned
                /\ ~Has(TOKEN_META, NEXT_TOKEN_ID)
                /\ NEXT_TOKEN_ID \in ALL_TOKENS'
                /\ ALL_TOKENS' \ ALL_TOKENS = {NEXT_TOKEN_ID}
          /\ last'.op \notin {"mint", "batch_mint", "synthesize"}
             => NEXT_TOKEN_ID' = NEXT_TOKEN_ID
         ]_vars

\* a synthesis has given its output the ID after two minted tokens, and a mint
\* of an ID below the counter has followed
C24_Witness ==
    /\ last.op = "mint"
    /\ last.ids[1] + 1 < NEXT_TOKEN_ID
    /\ \E id \in ALL_TOKENS : Has(TOKEN_META, id) /\ TOKEN_META[id].kind = Firefly

\* ------------------------------------- C25: when a synthesis is accepted

\* some line (kind, count) of the recipe has fewer than count inputs of its kind
under_supplied(inputs, recipe) ==
    \E j \in 1..Len(recipe.inputs) :
        count_of_kind(inputs, recipe.inputs[j].nft_kind) < recipe.inputs[j].count

\* what the claim asks of an accepted synthesis
synthesis_conditions(sender, inputs, target) ==
    /\ Has(RECIPES, to_key(target))
    /\ inputs # << >>
    /\ offending(sender, inputs) = {}
    /\ ~under_supplied(inputs, RECIPES[to_key(target)])

\* C25 as stated, the recipe looked up first: on the unpaused ledger a synthesis
\* within the length limit succeeds only under the four conditions, fails with
\* RecipeNotFound when the target has no recipe, and fails with
\* InsufficientInputTokens when the list is empty or a recipe line is
\* under-supplied.
C25_AsClaimed ==
    \A sender \in Addr, inputs \in InputLists(ProbeIds), target \in ProbeTargets :
        LET err == synthesize_error(sender, inputs, target)
        IN  ~CONTRACT_PAUSED =>
              /\ err = "Ok" => synthesis_conditions(sender, inputs, target)
              /\ ~Has(RECIPES, to_key(target)) => err = "RecipeNotFound"
              /\ /\ Has(RECIPES, to_key(target))
                 /\ inputs = << >> \/ under_supplied(inputs, RECIPES[to_key(target)])
                 => err = "InsufficientInputTokens"

\* C25 amended: on the unpaused ledger a synthesis within the length limit
\* succeeds only under the four conditions.  It fails with RecipeNotFound when
\* the target has no recipe; with a recipe stored it fails with
\* InsufficientInputTokens when the list is empty, with the error of its first
\* offending input when an input is not live or not the caller's, and with
\* InsufficientInputTokens when all inputs are the caller's live tokens and a
\* recipe line is under-supplied.  Under the four conditions only an overflow
\* of a counter makes it fail.
C25_SynthesisAcceptance ==
    \A sender \in Addr, inputs \in InputLists(ProbeIds), target \in ProbeTargets :
        LET err == synthesize_error(sender, inputs, target)
            bad == offending(sender, inputs)
            k == CHOOSE i \in bad : \A j \in bad : i <= j
        IN  ~CONTRACT_PAUSED =>
              /\ err = "Ok" => synthesis_conditions(sender, inputs, target)
              /\ err = IF ~Has(RECIPES, to_key(target)) THEN "RecipeNotFound"
                       ELSE IF inputs = << >> THEN "InsufficientInputTokens"
                       ELSE IF bad # {}
                            THEN (IF not_live(inputs[k]) THEN "TokenNotFound" ELSE "NotOwned")
                       ELSE IF under_supplied(inputs, RECIPES[to_key(target)])
                            THEN "InsufficientInputTokens"
                       ELSE IF err = "Overflow" THEN "Overflow"
                       ELSE "Ok"

\* C25 witness: after a synthesis the caller offers its one output for another
\* Firefly, which the recipe's line of two Clovers does not accept, while two
\* of the caller's Clovers would be
C25_Witness ==
    /\ ~CONTRACT_PAUSED
    /\ last.op = "synthesize"
    /\ \E id \in ALL_TOKENS, c \in ALL_TOKENS :
          /\ TOKEN_META[id].kind = Firefly /\ TOKEN_META[c].kind = Clover
          /\ TOKEN_OWNERSHIP[id] = last.sender /\ TOKEN_OWNERSHIP[c] = last.sender
          /\ synthesize_error(last.sender, <<id>>, Firefly) = "InsufficientInputTokens"
          /\ synthesize_error(last.sender, <<c, c>>, Firefly) = "Ok"
    /\ synthesize_error(last.sender, << >>, Firefly) = "InsufficientInputTokens"
    /\ synthesize_error(last.sender, << >>, Clover) = "RecipeNotFound"

\* --------------------------------------------------------- C26: burn

\* C26 as stated: a burn of a token without metadata fails with TokenNotFound,
\* and a burn of a live token by any address other than its owner fails with
\* NotOwned.
C26_AsClaimed ==
    \A sender \in Addr, token_id \in ProbeIds :
        /\ not_live(token_id) => burn_error(sender, token_id) = "TokenNotFound"
        /\ foreign(sender, token_id) /\ ~not_live(token_id)
              => burn_error(sender, token_id) = "NotOwned"

\* C26 amended: a burn succeeds only if the token is live and the caller is its
\* owner; while the contract is not paused it fails with TokenNotFound when the
\* token has no metadata and with NotOwned when another address owns it, and
\* while it is paused with ContractPaused.  A burn that succeeds removes the
\* token from metadata, ownership, approvals, the owner's index and the global
\* index, lowers the total supply by exactly 1 and leaves the next token ID and
\* the serial counters alone; after it a burn of the same token fails,
\* whoever sends it.
C26_BurnConditionsAndEffect ==
    [][/\ \A sender \in Addr, token_id \in ProbeIds :
              LET err == burn_error(sender, token_id)
              IN  /\ err = "Ok" => /\ ~not_live(token_id)
                                   /\ token_id \in ALL_TOKENS
                                   /\ TOKEN_OWNERSHIP[token_id] = sender
                  /\ CONTRACT_PAUSED => err = "ContractPaused"
                  /\ ~CONTRACT_PAUSED /\ not_live(token_id) => err = "TokenNotFound"
                  /\ ~CONTRACT_PAUSED /\ ~not_live(token_id) /\ foreign(sender, token_id)
                        => err = "NotOwned"
       /\ \A token_id \in ProbeIds :
              last'.op = "burn" /\ last'.ids = <<token_id>>
              => /\ burn_error(last'.sender, token_id) = "Ok"
                 /\ ~Has(TOKEN_META', token_id)
                 /\ ~Has(TOKEN_OWNERSHIP', token_id)
                 /\ ~Has(TOKEN_APPROVALS', token_id)
                 /\ \A a \in DOMAIN TOKENS_BY_OWNER' :
                        token_id \notin Range(TOKENS_BY_OWNER'[a])
                 /\ ALL_TOKENS' = ALL_TOKENS \ {token_id}
                 /\ TOTAL_SUPPLY' = TOTAL_SUPPLY - 1
                 /\ NEXT_TOKEN_ID' = NEXT_TOKEN_ID
                 /\ SERIES_NEXT_SERIAL' = SERIES_NEXT_SERIAL
                 /\ \A sender \in Addr : (burn_error(sender, token_id) # "Ok")'
      ]_vars

\* C26 witness: the owner has burned a token that its spender was approved for,
\* another live token is left, and the burned one is refused as not found
C26_Witness ==
    /\ ~CONTRACT_PAUSED
    /\ last.op = "burn"
    /\ last.purged = {last.ids[1]}
    /\ burn_error(last.sender, last.ids[1]) = "TokenNotFound"
    /\ \E token_id \in ALL_TOKENS :
          /\ TOKEN_OWNERSHIP[token_id] = last.sender
          /\ burn_error(Spender, token_id) = "NotOwned"

\* ------------------------------------------- C27: mint of a live token ID

\* C27 as stated: a mint whose token ID is live fails with TokenAlreadyExists,
\* whoever is to own the token and whatever its metadata.
C27_AsClaimed ==
    \A sender \in Addr, token_id \in ALL_TOKENS, owner \in ProbeAddr,
       extension \in ProbeExtensions :
        mint_error(sender, token_id, owner, extension) = "TokenAlreadyExists"

\* C27 amended: a mint whose token ID is live fails, whoever is to own the token
\* and whatever its metadata, so that the token and the counters stay as they
\* are.  It fails with TokenAlreadyExists when the contract is not paused, the
\* sender is an authorized minter, and the owner address and the series ID are
\* valid; otherwise with the error of the first of those checks that fails.
C27_LiveIdNotMintedAgain ==
    \A sender \in Addr, token_id \in ALL_TOKENS, owner \in ProbeAddr,
       extension \in ProbeExtensions :
        LET err == mint_error(sender, token_id, owner, extension)
        IN  /\ err # "Ok"
            /\ err = IF CONTRACT_PAUSED THEN "ContractPaused"
                     ELSE IF ~may_mint(sender) THEN "MinterNotAuthorized"
                     ELSE IF owner = "" \/ ~validate_series_id(extension.series_id) THEN "Std"
                     ELSE "TokenAlreadyExists"

\* C27 witness: token 1 is live and owned by user1, and the minter's mint of
\* token 1 to user2 is refused as already existing
C27_Witness ==
    /\ ~CONTRACT_PAUSED
    /\ last.op = "mint"
    /\ Has(TOKEN_OWNERSHIP, 1) /\ TOKEN_OWNERSHIP[1] = User1
    /\ mint_error(CONFIG.minter, 1, User2, Extension(Clover, S1)) = "TokenAlreadyExists"

\* --------------------------------------- approvals that expire, and blocks

\* the largest block height the environment reaches
MaxHeight == 2

\* the addresses an owner approves, and the expiries it gives them
Spenders == {User2, Minter}
Expiries ==
    {None, Some(Expiration(None, None)), Some(Expiration(Some(1), None)),
     Some(Expiration(None, Some(2))), Some(Expiration(Some(2), Some(1)))}

\* the environment mints token 1
MintOne ==
    \E sender \in Addr, owner \in Holders :
        /\ MayMint(S1, 1)
        /\ execute_mint(sender, 1, owner, Extension(Clover, S1))
        /\ last' = Call("mint", sender, <<1>>, {})
        /\ assigned' = assigned \cup {1}

ApproveWith ==
    \E sender \in Addr, spender \in Spenders, token_id \in ALL_TOKENS, expires \in Expiries :
        /\ execute_approve(sender, spender, token_id, expires)
        /\ last' = Call("approve", sender, <<token_id>>, {})
        /\ UNCHANGED assigned

RevokeOf ==
    \E sender \in Addr, spender \in Spenders, token_id \in ALL_TOKENS :
        /\ execute_revoke(sender, spender, token_id)
        /\ last' = Call("revoke", sender, <<token_id>>, {})
        /\ UNCHANGED assigned

\* a new block: the height grows by one and the time by one or two seconds
NextBlock ==
    \E seconds \in 1..2 :
        /\ block_height < MaxHeight
        /\ block_height' = block_height + 1
        /\ block_time' = block_time + seconds
        /\ UNCHANGED <<ledger, last, assigned>>

NextApprovals ==
    \/ MintOne
    \/ ApproveWith
    \/ RevokeOf
    \/ TransferNft
    \/ Burn
    \/ NextBlock
    \/ Pause
    \/ Unpause

\* the ledger under owners that approve with expiries and revoke, as blocks pass
SpecApprovals == Init /\ [][NextApprovals]_vars

\* ------------------------------------------- C28: one approval per spender

\* the entries of a list for one spender, and for the other spenders, in order
entries_of(approvals, spender) ==
    SelectSeq(approvals, LAMBDA approval : approval.spender = spender)
entries_of_others(approvals, spender) ==
    SelectSeq(approvals, LAMBDA approval : approval.spender # spender)

\* no spender has two entries in the approval list of a token
one_entry_per_spender ==
    \A token_id \in DOMAIN TOKEN_APPROVALS, spender \in Addr :
        Len(entries_of(TOKEN_APPROVALS[token_id], spender)) <= 1

\* C28 as stated: an approve and a revoke sent by anyone other than the token's
\* current owner fail with NotOwned.
C28_AsClaimed ==
    \A sender \in Addr, spender \in Spenders, token_id \in ALL_TOKENS :
        foreign(sender, token_id)
        => /\ approve_error(sender, spender, token_id) = "NotOwned"
           /\ revoke_error(sender, spender, token_id) = "NotOwned"

\* C28 amended: a token's approval list holds at most one entry per spender; an
\* approve replaces the spender's entry by one with the new expiry and keeps
\* the entries of the other spenders; an approve and a revoke sent by anyone
\* other than the token's owner are never accepted, failing with NotOwned
\* while the contract is not paused and with ContractPaused while it is.
C28_OneApprovalPerSpender ==
    [][/\ one_entry_per_spender
       /\ one_entry_per_spender'
       /\ \A sender \in Addr, spender \in Spenders, token_id \in ALL_TOKENS :
              foreign(sender, token_id)
              => /\ approve_error(sender, spender, token_id)
                    = IF CONTRACT_PAUSED THEN "ContractPaused" ELSE "NotOwned"
                 /\ revoke_error(sender, spender, token_id)
                    = IF CONTRACT_PAUSED THEN "ContractPaused" ELSE "NotOwned"
       /\ last'.op \in {"approve", "revoke"}
          => /\ Has(TOKEN_OWNERSHIP, last'.ids[1])
             /\ TOKEN_OWNERSHIP[last'.ids[1]] = last'.sender
       /\ \A spender \in Spenders, token_id \in ALL_TOKENS, expires \in Expiries :
              /\ last'.op = "approve"
              /\ execute_approve(last'.sender, spender, token_id, expires)
              => /\ entries_of(TOKEN_APPROVALS'[token_id], spender)
                    = <<[spender |-> spender, expires |-> expires]>>
                 /\ entries_of_others(TOKEN_APPROVALS'[token_id], spender)
                    = entries_of_others(approvals_of(token_id), spender)
      ]_vars

\* C28 witness: the owner has approved again a spender that was in the list
\* with another expiry, next to the entry of a second spender
C28_Witness ==
    /\ last.op = "approve"
    /\ Has(TOKEN_APPROVALS, 1)
    /\ TOKEN_APPROVALS[1] = <<[spender |-> Minter, expires |-> None],
                              [spender |-> User2, expires |-> Some(Expiration(Some(1), None))]>>
    /\ block_height = 1
    /\ approve_error(User2, Minter, 1) = "NotOwned"

\* ------------------------------------------ C29: no empty approval list

\* no token has a stored approval list without entries
no_empty_approval_list ==
    \A token_id \in DOMAIN TOKEN_APPROVALS : TOKEN_APPROVALS[token_id] # << >>

\* C29: no token has a stored approval list that is empty.  A revoke removes
\* the entry of the named spender, keeps the entries of the other spenders,
\* and deletes the record of the token when no entry is left; the owner's
\* revoke of a spender that has no entry is accepted on the unpaused ledger
\* and leaves the list as it is.
C29_NoEmptyApprovalList ==
    [][/\ no_empty_approval_list
       /\ no_empty_approval_list'
       /\ \A spender \in Spenders, token_id \in ALL_TOKENS :
              /\ last'.op = "revoke"
              /\ execute_revoke(last'.sender, spender, token_id)
              => /\ entries_of(approvals_of(token_id)', spender) = << >>
                 /\ approvals_of(token_id)' = entries_of_others(approvals_of(token_id), spender)
                 /\ Has(TOKEN_APPROVALS', token_id)
                    <=> entries_of_others(approvals_of(token_id), spender) # << >>
                 /\ entries_of(approvals_of(token_id), spender) = << >>
                    => TOKEN_APPROVALS' = TOKEN_APPROVALS
       /\ \A sender \in Addr, spender \in Spenders, token_id \in ALL_TOKENS :
              /\ ~CONTRACT_PAUSED
              /\ TOKEN_OWNERSHIP[token_id] = sender
              /\ entries_of(approvals_of(token_id), spender) = << >>
              => revoke_error(sender, spender, token_id) = "Ok"
      ]_vars

\* C29 witness: the owner's revoke has left token 1 live without an approval
\* record, and in that state a revoke of a spender without entry is accepted
C29_Witness ==
    /\ last.op = "revoke"
    /\ 1 \in ALL_TOKENS
    /\ ~Has(TOKEN_APPROVALS, 1)
    /\ ~CONTRACT_PAUSED
    /\ revoke_error(last.sender, Minter, 1) = "Ok"

\* ------------------------------------- state.rs, cw721.rs: expiry and queries

\* a faulty expiry test that takes a bound as reached only once it is passed
is_expired_after(expiration, height, time) ==
    IF IsSome(expiration.at_height) /\ height > Unwrap(expiration.at_height) THEN TRUE
    ELSE IF IsSome(expiration.at_time) /\ time > Unwrap(expiration.at_time) THEN TRUE
    ELSE FALSE

\* state.rs Expiration::is_expired, at a block of the given height and time
is_expired(expiration, height, time) ==
    IF IsSome(expiration.at_height) /\ height >= Unwrap(expiration.at_height) THEN TRUE
    ELSE IF IsSome(expiration.at_time) /\ time >= Unwrap(expiration.at_time) THEN TRUE
    ELSE FALSE

\* approval.expires.as_ref().map_or(false, |exp| exp.is_expired(&env))
approval_expired(approval) ==
    IF IsSome(approval.expires)
    THEN is_expired(Unwrap(approval.expires), block_height, block_time)
    ELSE FALSE

\* the approvals a query answers with: all of them, or those not expired
valid_approvals(approvals, include_expired) ==
    IF IsSome(include_expired) /\ Unwrap(include_expired)
    THEN approvals
    ELSE SelectSeq(approvals, LAMBDA approval : ~approval_expired(approval))

\* the expiry of an approval in the CW721 response
Cw721Expiration(expires) ==
    IF ~IsSome(expires) THEN [never |-> TRUE]
    ELSE IF IsSome(Unwrap(expires).at_height)
         THEN [at_height |-> Unwrap(Unwrap(expires).at_height)]
    ELSE IF IsSome(Unwrap(expires).at_time)
         THEN [at_time |-> Unwrap(Unwrap(expires).at_time)]
    ELSE [never |-> TRUE]

\* the approvals of a response: spender and converted expiry
response_approvals(approvals) ==
    [i \in 1..Len(approvals) |->
        [spender |-> approvals[i].spender, expires |-> Cw721Expiration(approvals[i].expires)]]

\* cw721.rs query_approvals: None when the token has no owner record
query_approvals(token_id, include_expired) ==
    IF ~Has(TOKEN_OWNERSHIP, token_id) THEN None
    ELSE Some([approvals |->
                  response_approvals(valid_approvals(approvals_of(token_id), include_expired))])

\* cw721.rs query_owner_of: None when the token has no owner record
query_owner_of(token_id, include_expired) ==
    IF ~Has(TOKEN_OWNERSHIP, token_id) THEN None
    ELSE Some([owner |-> TOKEN_OWNERSHIP[token_id],
               approvals |->
                  response_approvals(valid_approvals(approvals_of(token_id), include_expired))])

\* ------------------------------------------------- C30: expired approvals

\* the bounds an expiry can carry within the blocks the environment reaches
ProbeBounds == {None} \cup {Some(n) : n \in 0..(2 * MaxHeight + 1)}

\* a present bound of the expiry is reached at the current block
bound_reached(expiration) ==
    \/ expiration.at_height # None /\ block_height >= expiration.at_height[1]
    \/ expiration.at_time # None /\ block_time >= expiration.at_time[1]

\* the stored entries of a token that are not expired at the current block
unexpired(token_id) ==
    SelectSeq(approvals_of(token_id),
              LAMBDA approval : approval.expires = None \/ ~bound_reached(approval.expires[1]))

\* the spenders of a list of entries, in order
spenders_of(approvals) == [i \in 1..Len(approvals) |-> approvals[i].spender]

\* C30: an expiry is expired at the current block exactly when its height bound
\* is present and reached or its time bound is present and reached, so that an
\* expiry without bounds and an approval without expiry never expire.  The
\* approvals and owner_of queries of a live token list, entry for entry, the
\* stored entries that are not expired when include_expired is false or absent,
\* and all stored entries when it is true.
C30_ExpiredApprovalsFiltered ==
    /\ \A at_height \in ProbeBounds, at_time \in ProbeBounds :
           is_expired(Expiration(at_height, at_time), block_height, block_time)
           <=> bound_reached(Expiration(at_height, at_time))
    /\ ~is_expired(Expiration(None, None), block_height, block_time)
    /\ ~approval_expired([spender |-> User2, expires |-> None])
    /\ \A token_id \in ALL_TOKENS :
           /\ \A include_expired \in {None, Some(FALSE)} :
                  /\ query_approvals(token_id, include_expired)
                     = Some([approvals |-> response_approvals(unexpired(token_id))])
                  /\ spenders_of(Unwrap(query_approvals(token_id, include_expired)).approvals)
                     = spenders_of(unexpired(token_id))
                  /\ Unwrap(query_owner_of(token_id, include_expired)).approvals
                     = response_approvals(unexpired(token_id))
           /\ spenders_of(Unwrap(query_approvals(token_id, Some(TRUE))).approvals)
              = spenders_of(approvals_of(token_id))
           /\ Unwrap(query_owner_of(token_id, Some(TRUE))).approvals
              = response_approvals(approvals_of(token_id))
           /\ Unwrap(query_owner_of(token_id, None)).owner = TOKEN_OWNERSHIP[token_id]

\* C30 witness: at height 1 the entry with height bound 2 and time bound 1 has
\* expired by its time bound, the entry without expiry has not; the default
\* query lists one entry and the query for all lists both
C30_Witness ==
    /\ block_height = 1
    /\ 1 \in ALL_TOKENS
    /\ approvals_of(1) = <<[spender |-> User2, expires |-> Some(Expiration(Some(2), Some(1)))],
                           [spender |-> Minter, expires |-> None]>>
    /\ spenders_of(Unwrap(query_approvals(1, None)).approvals) = <<Minter>>
    /\ spenders_of(Unwrap(query_owner_of(1, Some(TRUE))).approvals) = <<User2, Minter>>

\* --------------------------------------- C31: one recipe per target kind

NextRecipes ==
    \/ Mint
    \/ Synthesize
    \/ SetRecipe
    \/ RemoveRecipe
    \/ Pause
    \/ Unpause

\* the ledger under an owner that sets and removes recipes between syntheses
SpecRecipes == Init /\ [][NextRecipes]_vars

\* the recipes of the kinds other than target, and the tokens, stay as they are
other_recipes_and_tokens_unchanged(target) ==
    /\ DOMAIN RECIPES' \ {to_key(target)} = DOMAIN RECIPES \ {to_key(target)}
    /\ \A key \in DOMAIN RECIPES \ {to_key(target)} : RECIPES'[key] = RECIPES[key]
    /\ tokens' = tokens

\* C31 as stated: while no recipe is stored for a kind, every synthesize that
\* targets the kind fails with RecipeNotFound.
C31_AsClaimed ==
    \A sender \in Addr, inputs \in ProbeInputs, target \in Targets :
        ~Has(RECIPES, to_key(target))
        => synthesize_error(sender, inputs, target) = "RecipeNotFound"

\* C31 amended: the recipes are stored one per target kind.  A set_recipe
\* stores its recipe as the recipe of the kind, in place of an earlier one, and
\* the syntheses accepted after it satisfy the new recipe; a remove_recipe
\* leaves the kind without recipe, and a kind without recipe gets one only by a
\* set_recipe.  While a kind has no recipe every synthesize that targets it
\* fails: with RecipeNotFound when the contract is not paused and the inputs
\* are within the limit, with ContractPaused or TooManyInputs otherwise.  Both
\* calls leave the recipes of the other kinds and every token as they are.
C31_OneRecipePerKind ==
    [][/\ \A sender \in Addr, inputs \in ProbeInputs, target \in Targets :
              ~Has(RECIPES, to_key(target))
              => synthesize_error(sender, inputs, target)
                 = IF CONTRACT_PAUSED THEN "ContractPaused"
                   ELSE IF Len(inputs) > MAX_SYNTHESIS_INPUTS THEN "TooManyInputs"
                   ELSE "RecipeNotFound"
       /\ \A target \in Targets, recipe \in AdminRecipes(Firefly) :
              /\ last'.op = "set_recipe"
              /\ execute_set_recipe(last'.sender, target, recipe)
              => /\ is_owner(last'.sender)
                 /\ Has(RECIPES', to_key(target))
                 /\ RECIPES'[to_key(target)] = recipe
                 /\ other_recipes_and_tokens_unchanged(target)
                 /\ \A sender \in Holders, inputs \in InputLists(ProbeIds) :
                        (synthesize_error(sender, inputs, target) = "Ok"
                         => ~under_supplied(inputs, recipe))'
       /\ \A target \in Targets :
              /\ last'.op = "remove_recipe"
              /\ execute_remove_recipe(last'.sender, target)
              => /\ is_owner(last'.sender)
                 /\ ~Has(RECIPES', to_key(target))
                 /\ other_recipes_and_tokens_unchanged(target)
       /\ \A target \in Targets :
              ~Has(RECIPES, to_key(target)) /\ Has(RECIPES', to_key(target))
              => last'.op = "set_recipe"
       /\ \A target \in Targets :
              last'.op = "synthesize" => Has(RECIPES, to_key(target))
      ]_vars

\* C31 witness: the recipe of Firefly was removed while a holder has a Clover
\* that the one-Clover recipe, set before, would have accepted
C31_Witness ==
    /\ last.op = "remove_recipe"
    /\ ~CONTRACT_PAUSED
    /\ ~Has(RECIPES, to_key(Firefly))
    /\ Has(RECIPES, to_key(CrimsonKoi))
    /\ \E token_id \in ALL_TOKENS :
          synthesize_error(TOKEN_OWNERSHIP[token_id], <<token_id>>, Firefly) = "RecipeNotFound"

\* ------------------------------------------ C32: the synthesis history

\* C32: the synthesis history only grows: no step removes a record or changes
\* a stored one, and every synthesis that succeeds adds one record, with its
\* caller, inputs, output and timestamp, so that the history holds as many
\* records as syntheses have succeeded, also when one caller synthesizes twice
\* at the same block time.
C32_HistoryAppendOnly ==
    [][/\ \A key \in DOMAIN SYNTHESIS_HISTORY :
              /\ Has(SYNTHESIS_HISTORY', key)
              /\ SYNTHESIS_HISTORY'[key] = SYNTHESIS_HISTORY[key]
       /\ last'.op = "synthesize"
          => /\ Cardinality(DOMAIN SYNTHESIS_HISTORY')
                = Cardinality(DOMAIN SYNTHESIS_HISTORY) + 1
             /\ \E key \in DOMAIN SYNTHESIS_HISTORY' \ DOMAIN SYNTHESIS_HISTORY :
                    SYNTHESIS_HISTORY'[key]
                    = [user |-> last'.sender, inputs |-> last'.ids,
                       output |-> NEXT_TOKEN_ID, timestamp |-> block_time]
      ]_vars

\* ------------------------------- C33: update_minter and update_base_uri

\* everything but the config stays as it is
only_config_changes ==
    UNCHANGED <<CONTRACT_PAUSED, ALLOWED_MINTERS, tokens, OPERATOR_APPROVALS, RECIPES, env>>

\* C33: while the contract is paused, update_minter and update_base_uri fail
\* with ContractPaused, also when the owner sends them, so that no step of a
\* paused contract changes the config.  On the unpaused contract the owner's
\* calls are accepted; an update_minter changes the minter field of the config
\* and nothing else, an update_base_uri the base URI field and nothing else:
\* owner, name, symbol, tokens and counters stay as they are.
C33_ConfigUpdatesGatedAndNarrow ==
    [][/\ \A sender \in Addr, new_minter \in ProbeAddr :
              CONTRACT_PAUSED
              => /\ update_minter_error(sender, new_minter) = "ContractPaused"
                 /\ update_base_uri_error(sender) = "ContractPaused"
       /\ CONTRACT_PAUSED => CONFIG' = CONFIG
       /\ \A new_minter \in Addr :
              ~CONTRACT_PAUSED
              => /\ update_minter_error(CONFIG.owner, new_minter) = "Ok"
                 /\ update_base_uri_error(CONFIG.owner) = "Ok"
       /\ last'.op = "update_minter"
          => /\ last'.sender = CONFIG.owner
             /\ \E new_minter \in Addr :
                    CONFIG' = [name |-> CONFIG.name, symbol |-> CONFIG.symbol,
                               minter |-> new_minter, base_uri |-> CONFIG.base_uri,
                               owner |-> CONFIG.owner]
             /\ only_config_changes
       /\ last'.op = "update_base_uri"
          => /\ last'.sender = CONFIG.owner
             /\ IsSome(CONFIG'.base_uri)
             /\ CONFIG' = [name |-> CONFIG.name, symbol |-> CONFIG.symbol,
                           minter |-> CONFIG.minter, base_uri |-> CONFIG'.base_uri,
                           owner |-> CONFIG.owner]
             /\ only_config_changes
      ]_vars

\* C33 witness: the owner has named a new minter and set a base URI, a token
\* is live, and on the contract paused since then the owner's updates are
\* refused
C33_Witness ==
    /\ CONTRACT_PAUSED
    /\ CONFIG.minter = User1
    /\ CONFIG.base_uri = Some("ipfs://luckee/")
    /\ CONFIG.owner = Creator /\ CONFIG.name = "Luckee NFT" /\ CONFIG.symbol = "LUCKEE"
    /\ ALL_TOKENS # {}
    /\ update_minter_error(CONFIG.owner, Minter) = "ContractPaused"
    /\ update_base_uri_error(CONFIG.owner) = "ContractPaused"

\* ------------------------------------------- C34: per-series serial counters

\* The value stored under a series ID in a counter map, zero for a series that
\* has no entry yet.
stored_serial(serials, series_id) ==
    IF series_id \in DOMAIN serials THEN serials[series_id] ELSE 0

\* Every series ID that names a counter before or after the step, together with
\* the series the contract can write in one step: those of the extensions in
\* use and the one synthesize derives from the block time.
C34_Series ==
    {S1, S2, synthesis_series_id(block_time)} \cup DOMAIN SERIES_NEXT_SERIAL

\* C34: over every step the stored serial counter of every series s grows by
\* exactly the number of tokens the step creates in s: one for a successful
\* mint in the minted token's series, one per item of a successful batch_mint
\* in that item's series, one for a successful synthesize in the output's
\* series, and nothing for any other call or any other series. Burn and the
\* consumption of synthesis inputs therefore never lower a counter, and the
\* counter of s counts the tokens ever created in s.
C34_SerialCountersCountCreations ==
    [][/\ DOMAIN SERIES_NEXT_SERIAL \subseteq DOMAIN SERIES_NEXT_SERIAL'
       /\ \A s \in C34_Series \cup DOMAIN SERIES_NEXT_SERIAL' :
              stored_serial(SERIES_NEXT_SERIAL', s)
                  = stored_serial(SERIES_NEXT_SERIAL, s)
                    + IF last' # last /\ last'.op \in {"mint", "batch_mint"}
                      THEN Cardinality({i \in 1..Len(last'.ids) :
                                            TOKEN_META'[last'.ids[i]].series_id = s})
                      ELSE IF last' # last /\ last'.op = "synthesize"
                      THEN IF TOKEN_META'[NEXT_TOKEN_ID].series_id = s THEN 1 ELSE 0
                      ELSE 0
      ]_vars

\* A token was minted in series S1 twice and both were consumed by a synthesis:
\* the counter of S1 still shows two, the counter of the output's series one.
C34_Witness ==
    /\ last.op = "synthesize"
    /\ Cardinality(ALL_TOKENS) = 1
    /\ stored_serial(SERIES_NEXT_SERIAL, S1) = 2
    /\ stored_serial(SERIES_NEXT_SERIAL, synthesis_series_id(block_time)) = 1

\* ------------------------------------- C35: one token counted once per recipe

\* The live tokens of a kind that a step removes from the ledger and that the
\* sender owned before the step.
destroyed_of_kind(sender, kind) ==
    {id \in ALL_TOKENS \ ALL_TOKENS' :
        TOKEN_OWNERSHIP[id] = sender /\ TOKEN_META[id].kind = kind}

\* C35: every successful synthesize destroys, for each line (kind, count) of the
\* target's recipe, at least count pairwise distinct live tokens of that kind
\* owned by the caller; a list that reaches the count only by naming one token
\* ID several times does not synthesize.
C35_DistinctTokensPerRecipeLine ==
    [][last' # last /\ last'.op = "synthesize"
       => \A target \in Targets :
              TOKEN_META'[NEXT_TOKEN_ID].kind = target
              => \A j \in 1..Len(RECIPES[to_key(target)].inputs) :
                     Cardinality(destroyed_of_kind(
                         last'.sender, RECIPES[to_key(target)].inputs[j].nft_kind))
                         >= RECIPES[to_key(target)].inputs[j].count
      ]_vars

\* ------------------------------------------ C36: a live token can be burned

\* C36: in every reachable unpaused state, burn of a live token sent by its
\* current owner succeeds; the checked decrement of the total supply does not
\* underflow while a token exists.
C36_OwnerCanAlwaysBurn ==
    ~CONTRACT_PAUSED
    => \A token_id \in ALL_TOKENS :
           burn_error(TOKEN_OWNERSHIP[token_id], token_id) = "Ok"

\* ------------------------------------- C37: the answer of is_approved_for_all

\* cw721.rs query_is_approved_for_all, lines 400-408: the grant of the pair is
\* stored and not expired at the block of the query.
operator_approved(owner, operator) ==
    /\ Has(OPERATOR_APPROVALS, <<owner, operator>>)
    /\ ~is_expired(OPERATOR_APPROVALS[<<owner, operator>>], block_height, block_time)

\* cw721.rs query_is_approved_for_all: the OperatorResponse it serialises. Both
\* branches of `if approved` build the operator with Cw721Expiration::Never.
query_is_approved_for_all(owner, operator) ==
    [approval |-> IF operator_approved(owner, operator)
                  THEN [spender |-> operator, expires |-> Cw721Expiration(None)]
                  ELSE [spender |-> operator, expires |-> Cw721Expiration(None)]]

\* C37: the response of is_approved_for_all for a pair (owner, operator) tells
\* whether an unexpired grant of the pair is stored: whenever a step makes or
\* ends the approval (approve_all on a pair without a grant, revoke_all, or the
\* block passing the expiry), the response after the step differs from the
\* response before it.
C37_ResponseTellsApproval ==
    [][\A owner \in Addr, operator \in Addr :
           operator_approved(owner, operator)' # operator_approved(owner, operator)
           => query_is_approved_for_all(owner, operator)'
                  # query_is_approved_for_all(owner, operator)
      ]_vars

\* --------------------------- C38: synthesize consumes the whole input list

\* C38: a successful synthesize destroys every token of its input list, also
\* those beyond the counts the recipe requires and those of kinds the recipe
\* does not mention: none of them is left in the metadata, the ownership map,
\* the approvals, any owner's list or the global index. The step creates
\* exactly one token, the output, and the total supply changes by one minus
\* the length of the input list.
C38_EveryInputConsumed ==
    [][last' # last /\ last'.op = "synthesize"
       => /\ \A id \in Range(last'.ids) :
                 /\ id \notin ALL_TOKENS'
                 /\ id \notin DOMAIN TOKEN_META'
                 /\ id \notin DOMAIN TOKEN_OWNERSHIP'
                 /\ id \notin DOMAIN TOKEN_APPROVALS'
                 /\ \A owner \in DOMAIN TOKENS_BY_OWNER' :
                        id \notin Range(TOKENS_BY_OWNER'[owner])
          /\ ALL_TOKENS \ ALL_TOKENS' = Range(last'.ids)
          /\ ALL_TOKENS' \ ALL_TOKENS = {NEXT_TOKEN_ID}
          /\ DOMAIN TOKEN_META' \ DOMAIN TOKEN_META = {NEXT_TOKEN_ID}
          /\ TOTAL_SUPPLY' = TOTAL_SUPPLY + 1 - Len(last'.ids)
      ]_vars

\* The recipe of Firefly asks for one Clover; the caller synthesized from
\* Clover 2 and token 3, which is above every mintable ID and so the Firefly of
\* an earlier synthesis, a kind the recipe does not mention. Both are gone, the
\* output 4 is the only live token and the supply went from 2 to 1.
C38_Witness ==
    /\ last.op = "synthesize"
    /\ last.ids = <<2, 3>>
    /\ MaxMintId < 3
    /\ RECIPES[to_key(Firefly)].inputs = <<RecipeInput(Clover, 1)>>
    /\ ALL_TOKENS = {4}
    /\ TOKEN_META[4].kind = Firefly
    /\ TOTAL_SUPPLY = 1

\* ----------------------------------- C39: the first page of the token lists

\* TOKEN_META.range(start_after.map(Bound::exclusive), None, Order::Ascending):
\* the stored IDs in ascending order, after the bound when one is given
range_after(start_after) ==
    keys_ascending({id \in DOMAIN TOKEN_META :
                        ~IsSome(start_after) \/ id > Unwrap(start_after)})

\* luckee.rs query_tokens_by_kind: the IDs of TokensByKindResponse
query_tokens_by_kind(kind, start_after, limit) ==
    take(SelectSeq(range_after(start_after), LAMBDA id : TOKEN_META[id].kind = kind),
         page_size(limit))

\* luckee.rs query_tokens_by_series: the IDs of TokensBySeriesResponse
query_tokens_by_series(series_id, start_after, limit) ==
    take(SelectSeq(range_after(start_after),
                   LAMBDA id : TOKEN_META[id].series_id = series_id),
         page_size(limit))

\* luckee.rs query_tokens_by_group: the IDs of TokensByGroupResponse
query_tokens_by_group(group_id, start_after, limit) ==
    take(SelectSeq(range_after(start_after),
                   LAMBDA id : TOKEN_META[id].collection_group_id = Some(group_id)),
         page_size(limit))

\* a collection group ID
G1 == <<"g", "1">>

\* the minter mints token ID 0, below the first allocated ID, in series S2 and
\* group G1
MintLowest ==
    \E sender \in Addr, owner \in Holders, kind \in {Clover, Firefly} :
        /\ MayMint(S2, 1)
        /\ execute_mint(sender, 0, owner,
                        [Extension(kind, S2) EXCEPT !.collection_group_id = Some(G1)])
        /\ last' = Call("mint", sender, <<0>>, {})
        /\ assigned' = assigned \cup {0}

NextEnumeration ==
    \/ Mint
    \/ MintLowest
    \/ Burn
    \/ Pause
    \/ Unpause

SpecEnumeration == Init /\ [][NextEnumeration]_vars

\* the n smallest IDs of a set, ascending
smallest(ids, n) == take(keys_ascending(ids), n)

\* the page sizes asked for, None included
C39_Limits == {None} \cup {Some(L) : L \in QueryLimits}

\* C39: without start_after, all_tokens returns the min(limit, 30) smallest live
\* token IDs in ascending order from the very first one, token ID 0 included
\* when it is live, and tokens_by_kind, tokens_by_series and tokens_by_group
\* return the smallest live IDs of the kind, the series and the group.
C39_FirstPageStartsAtFirst ==
    \A limit \in C39_Limits :
        /\ query_all_tokens(None, limit)
               = TokensResponse(smallest(ALL_TOKENS, page_size(limit)))
        /\ \A kind \in ProbeTargets :
               query_tokens_by_kind(kind, None, limit)
                   = smallest({id \in ALL_TOKENS : TOKEN_META[id].kind = kind},
                              page_size(limit))
        /\ \A series_id \in {S1, S2} :
               query_tokens_by_series(series_id, None, limit)
                   = smallest({id \in ALL_TOKENS : TOKEN_META[id].series_id = series_id},
                              page_size(limit))
        /\ \A group_id \in {G1} :
               query_tokens_by_group(group_id, None, limit)
                   = smallest({id \in ALL_TOKENS :
                                   TOKEN_META[id].collection_group_id = Some(group_id)},
                              page_size(limit))

\* ------------------------------------- C40: transfer to the owner's own address

\* C40: on the unpaused contract the owner of a token may transfer it to the
\* owner's own address; the transfer leaves the ownership map, the owner's
\* list (the ID still in it exactly once, the list still ascending), the global
\* index and the total supply as they were, and deletes the approvals of the
\* token.
C40_SelfTransferKeepsLedger ==
    /\ [](~CONTRACT_PAUSED
          => \A token_id \in DOMAIN TOKEN_OWNERSHIP :
                 transfer_nft_error(TOKEN_OWNERSHIP[token_id], TOKEN_OWNERSHIP[token_id],
                                    token_id) = "Ok")
    /\ [][\A owner \in Holders, token_id \in ALL_TOKENS :
              (/\ last' # last
               /\ last'.op = "transfer_nft"
               /\ execute_transfer_nft(owner, owner, token_id))
              => /\ TOKEN_OWNERSHIP' = TOKEN_OWNERSHIP
                 /\ TOKENS_BY_OWNER' = TOKENS_BY_OWNER
                 /\ Cardinality({i \in 1..Len(TOKENS_BY_OWNER'[owner]) :
                                     TOKENS_BY_OWNER'[owner][i] = token_id}) = 1
                 /\ \A i, j \in 1..Len(TOKENS_BY_OWNER'[owner]) :
                        i < j => TOKENS_BY_OWNER'[owner][i] < TOKENS_BY_OWNER'[owner][j]
                 /\ ALL_TOKENS' = ALL_TOKENS
                 /\ TOTAL_SUPPLY' = TOTAL_SUPPLY
                 /\ token_id \notin DOMAIN TOKEN_APPROVALS'
                 /\ \A other \in DOMAIN TOKEN_APPROVALS \ {token_id} :
                        /\ other \in DOMAIN TOKEN_APPROVALS'
                        /\ TOKEN_APPROVALS'[other] = TOKEN_APPROVALS[other]
       ]_vars

\* The last call was a transfer of token 1 sent by its holder, who holds it
\* still, so the recipient was the sender; the holder has tokens 1 and 2 in
\* this order, and the approval that token 1 carried before the call is gone.
C40_Witness ==
    /\ last.op = "transfer_nft"
    /\ last.ids = <<1>>
    /\ TOKEN_OWNERSHIP[1] = last.sender
    /\ TOKENS_BY_OWNER[last.sender] = <<1, 2>>
    /\ last.purged = {1}
    /\ 1 \notin DOMAIN TOKEN_APPROVALS

====
